---------------------------- MODULE Spec2Model ----------------------------
(***************************************************************************)
(* Model of the portfolio dashboard in src/api/ai-commentary.ts: the       *)
(* quantitative layer (statistics, weight renormalization, series          *)
(* alignment, seeded random source, Monte-Carlo frontier sampler) and the   *)
(* part of the React session that owns the asset list and the weights.     *)
(*                                                                         *)
(* Numbers.  A JavaScript number is modelled as an exact rational <<n, d>> *)
(* (d > 0, lowest terms): +, -, *, / and comparisons are exact.  The       *)
(* irrational library functions (Math.sqrt, Math.log, Math.cos) cannot be  *)
(* exact and are modelled as the code's are: rounded to a fixed number of  *)
(* significant bits (SqrtBits, LogBits, CosBits instead of IEEE's 53).     *)
(* 32-bit integer arithmetic (Math.imul, ^, |, >>>) is modelled bit for    *)
(* bit on words held as two 16-bit halves <<hi, lo>>.                      *)
(***************************************************************************)
EXTENDS Integers, Sequences, FiniteSets, TLC

VARIABLES
    assets,         \* session: Asset[] (the ids), line 446
    weights,        \* session: number[], line 451
    seed,           \* session: number, line 448
    uploadedNames,  \* session: string[], line 457
    seriesByAsset,  \* session: number[][], line 464 (each row by where its numbers come from)
    frontierGenerated, \* session: boolean, line 461
    aiText,         \* session: string, line 442
    aiStatus,       \* session: "idle" | "loading" | "error", line 443
    uploads,        \* session: calls of handleUploadCsv waiting for the text of their file
    requests,       \* session: calls of fetchAiCommentary waiting for the answer of the endpoint
    pending,        \* session: dependencies changed by the last render whose effects have not run yet
    clicks,         \* session: number of events handled so far
    lastEvent,      \* session: the last event handled and the state it found
    renorm,         \* calls of updateWeightWithRenormalization: the vector, the last call
    aligned,        \* a call of alignSeriesToCommonLength: input and output
    stats,          \* a call of covarianceMatrix / correlationFromCov: input and outputs
    sampler,        \* runs of generateMockSeries / generateEfficientFrontier: rng closure, outputs
    csv,            \* a call of parseCsvOhlcvCloseReturns: the text and what the call gave
    endpoint        \* the commentary endpoint: the request being served, the response sent

sessionVars == <<assets, weights, seed, uploadedNames, seriesByAsset, frontierGenerated,
                 aiText, aiStatus, uploads, requests, pending, clicks, lastEvent>>

callVars == <<renorm, aligned, stats, sampler, csv, endpoint>>

vars == <<sessionVars, callVars>>

-----------------------------------------------------------------------------
(* Exact rational arithmetic *)

Abs(x) == IF x < 0 THEN -x ELSE x

RECURSIVE GCD(_, _)
GCD(a, b) == IF b = 0 THEN a ELSE GCD(b, a % b)

\* The rational n/d (d # 0) in lowest terms with a positive denominator.
Rat(n, d) ==
    LET g == GCD(Abs(n), Abs(d))
        s == IF d < 0 THEN -1 ELSE 1
    IN  <<s * (n \div g), s * (d \div g)>>

Zero == <<0, 1>>
One == <<1, 1>>
Int2Rat(k) == <<k, 1>>

\* JavaScript's NaN (what arithmetic on `undefined` gives): no rational has denominator 0.
NaN == <<0, 0>>
IsNaN(x) == x[2] = 0

RNeg(a) == <<-a[1], a[2]>>

RAdd(a, b) ==
    IF IsNaN(a) \/ IsNaN(b) THEN NaN
    ELSE LET g == GCD(a[2], b[2])
         IN  Rat(a[1] * (b[2] \div g) + b[1] * (a[2] \div g), (a[2] \div g) * b[2])

RSub(a, b) == RAdd(a, RNeg(b))

\* Cross-cancelling keeps the intermediate products small.
RMul(a, b) ==
    IF IsNaN(a) \/ IsNaN(b) THEN NaN
    ELSE LET g1 == GCD(Abs(a[1]), b[2])
             g2 == GCD(Abs(b[1]), a[2])
         IN  <<(a[1] \div g1) * (b[1] \div g2), (a[2] \div g2) * (b[2] \div g1)>>

\* a / b.  Every division of the code is guarded against a zero divisor, so a
\* number divided by 0 (JavaScript's Infinity) has no value here.
RDiv(a, b) ==
    IF IsNaN(a) \/ IsNaN(b) THEN NaN
    ELSE IF b[1] > 0 THEN RMul(a, <<b[2], b[1]>>)
    ELSE IF b[1] < 0 THEN RMul(a, <<-b[2], -b[1]>>)
    ELSE CHOOSE x \in {} : TRUE

\* Compares p/q with r/s (all positive) by continued fractions: no product is formed.
RECURSIVE CmpPos(_, _, _, _)
CmpPos(p, q, r, s) ==
    LET a == p \div q
        b == r \div s
        pr == p % q
        rr == r % s
    IN  IF a # b THEN (IF a < b THEN -1 ELSE 1)
        ELSE IF pr = 0 /\ rr = 0 THEN 0
        ELSE IF pr = 0 THEN -1
        ELSE IF rr = 0 THEN 1
        ELSE -CmpPos(q, pr, s, rr)

\* -1, 0, 1 as a < b, a = b, a > b; 2 when either is NaN (unordered).
RCmp(a, b) ==
    IF IsNaN(a) \/ IsNaN(b) THEN 2
    ELSE IF a[1] <= 0 /\ b[1] > 0 THEN -1
    ELSE IF a[1] > 0 /\ b[1] <= 0 THEN 1
    ELSE IF a[1] = 0 /\ b[1] = 0 THEN 0
    ELSE IF a[1] = 0 THEN 1          \* b < 0
    ELSE IF b[1] = 0 THEN -1         \* a < 0
    ELSE IF a[1] > 0 THEN CmpPos(a[1], a[2], b[1], b[2])
    ELSE -CmpPos(-a[1], a[2], -b[1], b[2])

\* <, <=, >, >=: false when either side is NaN.
RLt(a, b) == RCmp(a, b) = -1
RLe(a, b) == RCmp(a, b) \in {-1, 0}
RGt(a, b) == RCmp(a, b) = 1
RGe(a, b) == RCmp(a, b) \in {0, 1}

\* Math.max(a, b), Math.min(a, b): NaN when either is NaN.
MathMax(a, b) == IF IsNaN(a) \/ IsNaN(b) THEN NaN ELSE IF RLt(a, b) THEN b ELSE a
MathMin(a, b) == IF IsNaN(a) \/ IsNaN(b) THEN NaN ELSE IF RLt(b, a) THEN b ELSE a
RAbs(a) == <<Abs(a[1]), a[2]>>

\* Sum of a sequence of rationals, left to right from 0 (Array.prototype.reduce).
RECURSIVE RSumTo(_, _)
RSumTo(s, k) == IF k = 0 THEN Zero ELSE RAdd(RSumTo(s, k - 1), s[k])
RSum(s) == RSumTo(s, Len(s))

-----------------------------------------------------------------------------
(* 32-bit words, as JavaScript's int32 operators see a number: <<hi, lo>>, *)
(* two 16-bit halves.                                                      *)

Half == 256 * 256

Word(hi, lo) == <<hi % Half, lo % Half>>

\* ToUint32 of a non-negative integer below 2^31 (the seeds the session uses).
WordOfNat(k) == <<k \div Half, k % Half>>

RECURSIVE Pow2(_)
Pow2(k) == IF k = 0 THEN 1 ELSE 2 * Pow2(k - 1)

RECURSIVE Xor16(_, _)
Xor16(a, b) ==
    IF a = 0 THEN b
    ELSE IF b = 0 THEN a
    ELSE 2 * Xor16(a \div 2, b \div 2) + (((a % 2) + (b % 2)) % 2)

RECURSIVE Or16(_, _)
Or16(a, b) ==
    IF a = 0 THEN b
    ELSE IF b = 0 THEN a
    ELSE 2 * Or16(a \div 2, b \div 2) + (IF a % 2 = 1 \/ b % 2 = 1 THEN 1 ELSE 0)

\* a ^ b
XorW(a, b) == <<Xor16(a[1], b[1]), Xor16(a[2], b[2])>>

\* a | k for a small constant k (k < 2^16)
OrSmallW(a, k) == <<a[1], Or16(a[2], k)>>

\* a >>> k, 0 < k < 16
ShrW(a, k) ==
    <<a[1] \div Pow2(k), (a[1] % Pow2(k)) * Pow2(16 - k) + a[2] \div Pow2(k)>>

\* (a + b) mod 2^32
AddW(a, b) ==
    LET lo == a[2] + b[2]
    IN  <<(a[1] + b[1] + lo \div Half) % Half, lo % Half>>

\* The low 16 bits of x * y for 16-bit x, y, through 8-bit digits.
MulLo16(x, y) ==
    LET x0 == x % 256
        x1 == x \div 256
        y0 == y % 256
        y1 == y \div 256
    IN  (x0 * y0 + ((x1 * y0 + x0 * y1) % 256) * 256) % Half

\* The full 32-bit product of 16-bit x, y as a word.
MulFull16(x, y) ==
    LET x0 == x % 256
        x1 == x \div 256
        y0 == y % 256
        y1 == y \div 256
        t0 == x0 * y0
        t1 == x1 * y0 + x0 * y1
        t2 == x1 * y1
        lo == t0 + (t1 % 256) * 256
    IN  <<(t2 + t1 \div 256 + lo \div Half) % Half, lo % Half>>

\* Math.imul(a, b): the low 32 bits of the product.
Imul(a, b) ==
    LET ll == MulFull16(a[2], b[2])
        cross == (MulLo16(a[1], b[2]) + MulLo16(a[2], b[1])) % Half
    IN  <<(ll[1] + cross) % Half, ll[2]>>

\* a < b as unsigned 32-bit values
LtW(a, b) == a[1] < b[1] \/ (a[1] = b[1] /\ a[2] < b[2])

-----------------------------------------------------------------------------
(* Deterministic random source: mulberry32, lines 90-97.  The closure's    *)
(* captured variable `seed` is the generator's whole state.                *)

\* 0x6d2b79f5
MulberryIncrement == <<27947, 31221>>

\* mulberry32(seed): a new closure whose state is the seed it was given.
mulberry32_shared(s) == sampler.rngState
mulberry32(s) == WordOfNat(s)

\* One call of the closure: the state after `seed += 0x6d2b79f5`.
rngAdvance(state) == AddW(state, MulberryIncrement)

\* One call of the closure: the 32-bit word it returns (before `/ 4294967296`),
\* read from the advanced state.
rngOutput(advanced) ==
    LET first(t) == Imul(XorW(t, ShrW(t, 15)), OrSmallW(t, 1))
        second(t) == XorW(t, AddW(t, Imul(XorW(t, ShrW(t, 7)), OrSmallW(t, 61))))
        last(t) == XorW(t, ShrW(t, 14))
    IN  last(second(first(advanced)))

\* The k-th word (k >= 1) a closure in state `state` returns, and its state after k calls.
RECURSIVE rngStateAfter(_, _)
rngStateAfter(state, k) == IF k = 0 THEN state ELSE rngAdvance(rngStateAfter(state, k - 1))
rngWord(state, k) == rngOutput(rngStateAfter(state, k))

-----------------------------------------------------------------------------
(* The irrational library functions, rounded to a few significant bits.    *)

\* Significant bits Math.sqrt keeps, fractional bits of Math.log's base-2 value,
\* and bits of Math.cos's argument and result.
SqrtBits == 6
LogBits == 5
CosBits == 6

\* The deepest binary scaling of Math.sqrt's argument (below 4^-MaxSqrtShift the
\* result loses significant bits, as a subnormal does).
MaxSqrtShift == 10 + 10

\* floor(sqrt(q)) for a natural q
RECURSIVE Isqrt(_)
Isqrt(q) ==
    IF q < 2 THEN q
    ELSE LET s == 2 * Isqrt(q \div 4)
         IN  IF (s + 1) * (s + 1) <= q THEN s + 1 ELSE s

\* q + r/d doubled, r < d: <<2q + floor(2r / d), 2r mod d>>, without forming 2r.
Doubled(q, r, d) ==
    IF r >= d - r THEN <<2 * q + 1, r - (d - r)>> ELSE <<2 * q, r + r>>

\* q + r/d scaled by 4 until it has 2*SqrtBits bits: <<q, r, e>> with value * 4^e = q + r/d.
RECURSIVE SqrtScale(_, _, _, _)
SqrtScale(q, r, d, e) ==
    IF q >= Pow2(2 * SqrtBits) \/ e >= MaxSqrtShift THEN <<q, r, e>>
    ELSE LET again(once) == Doubled(once[1], once[2], d)
             scaled(twice) == SqrtScale(twice[1], twice[2], d, e + 1)
         IN  scaled(again(Doubled(q, r, d)))

\* Math.sqrt(x) for x >= 0: the square root rounded to nearest at SqrtBits
\* significant bits (IEEE 754 rounds it to nearest at 53).
MathSqrt(x) ==
    IF IsNaN(x) THEN NaN
    ELSE IF x[1] = 0 THEN Zero
    ELSE LET quarter == (x[2] \div 4) + (IF x[2] % 4 = 0 THEN 0 ELSE 1)
             up(q, r, g) == q > g * g + g \/ (q = g * g + g /\ r >= quarter)
             rounded(sc, g) == Rat(IF up(sc[1], sc[2], g) THEN g + 1 ELSE g, Pow2(sc[3]))
             root(sc) == rounded(sc, Isqrt(sc[1]))
         IN  root(SqrtScale(x[1] \div x[2], x[1] % x[2], x[2], 0))

RECURSIVE BitLen(_)
BitLen(x) == IF x = 0 THEN 0 ELSE 1 + BitLen(x \div 2)

\* The position of w's leading bit (0..31) for a word w # 0.
LeadBit(w) == IF w[1] > 0 THEN 15 + BitLen(w[1]) ELSE BitLen(w[2]) - 1

\* The 15 leading bits of a word w # 0: floor(w * 2^(14 - LeadBit(w))).
Lead15(w) ==
    LET e == LeadBit(w)
    IN  IF e >= 30 THEN w[1] \div Pow2(e - 30)
        ELSE IF e >= 14 THEN w[1] * Pow2(30 - e) + (w[2] \div Pow2(e - 14))
        ELSE w[2] * Pow2(14 - e)

\* k fractional bits of log2(y / 2^14) for 2^14 <= y < 2^15, by repeated squaring.
RECURSIVE LogFrac(_, _)
LogFrac(y, k) ==
    IF k = 0 THEN 0
    ELSE LET z == (y * y) \div Pow2(14)
         IN  IF z >= Pow2(15) THEN Pow2(k - 1) + LogFrac(z \div 2, k - 1)
             ELSE LogFrac(z, k - 1)

\* ln 2 = 0.6931..., to 12 bits
Ln2 == <<2839, 4096>>

\* -Math.log(1e-9) = 20.7232..., to 8 fractional bits
NegLogFloor == <<5305, 256>>

\* -Math.log(w / 4294967296) for a word w # 0: positive;
\* -log2 to LogBits fractional bits, times ln 2.
NegLogOfWord(w) ==
    RMul(RSub(Int2Rat(32 - LeadBit(w)), Rat(LogFrac(Lead15(w), LogBits), Pow2(LogBits))), Ln2)

\* -Math.log(Math.max(1e-9, w / 4294967296)), line 268: w / 2^32 < 1e-9 iff w <= 4.
NegLogClamped(w) == IF LtW(w, <<0, 5>>) THEN NegLogFloor ELSE NegLogOfWord(w)

\* Bhaskara's approximation of sin(pi * t) for 0 <= t <= 1.
SinPi(t) ==
    LET bhaskara(p) == RDiv(RMul(Int2Rat(16), p), RSub(Int2Rat(5), RMul(Int2Rat(4), p)))
    IN  bhaskara(RMul(t, RSub(One, t)))

\* x rounded down to k fractional bits
RoundBits(x, k) == Rat((x[1] * Pow2(k)) \div x[2], Pow2(k))

\* Math.cos(2 * Math.PI * (w / 4294967296)): the argument read to CosBits bits, the
\* result kept to CosBits fractional bits.  cos(2 pi v) = sin(pi (2v + 1/2)).
Cos2Pi(w) ==
    LET v == Rat(w[1] \div Pow2(16 - CosBits), Pow2(CosBits))
        reduced(s) == IF RLe(s, One) THEN s
                      ELSE IF RLe(s, Int2Rat(2)) THEN RSub(s, One)
                      ELSE RSub(s, Int2Rat(2))
        signed(s, y) == IF RLe(s, One) \/ ~RLe(s, Int2Rat(2)) THEN y ELSE RNeg(y)
        sine(s) == signed(s, SinPi(reduced(s)))
        rounded(c) == IF c[1] >= 0 THEN RoundBits(c, CosBits)
                      ELSE RNeg(RoundBits(RNeg(c), CosBits))
    IN  rounded(sine(RAdd(RMul(Int2Rat(2), v), <<1, 2>>)))

-----------------------------------------------------------------------------
(* Statistics: mean / covariance / correlation, lines 124-176.  Arrays are *)
(* sequences: the code's index i is i + 1 here.                            *)

\* The array with the entries of f, each computed once (Array.from, map).
ArrayOf(f) == f \o <<>>

\* arr[k - 1]: `undefined` past the end, which arithmetic turns into NaN.
Elem(arr, k) == IF k \in 1..Len(arr) THEN arr[k] ELSE NaN

Max2(a, b) == IF a < b THEN b ELSE a

\* clamp(x, min, max), line 108
clamp(x, lo, hi) == MathMax(lo, MathMin(hi, x))

\* mean(arr), line 124
mean(arr) == RDiv(RSum(arr), Int2Rat(Max2(1, Len(arr))))

\* The inner loop of covarianceMatrix, lines 139-142: acc after t periods.
RECURSIVE covAcc(_, _, _, _, _)
covAcc(series, mus, i, j, t) ==
    IF t = 0 THEN Zero
    ELSE RAdd(covAcc(series, mus, i, j, t - 1),
              RMul(RSub(Elem(series[i], t), mus[i]),
                   RSub(Elem(series[j], t), mus[j])))

\* covarianceMatrix(seriesByAsset), lines 128-149.  T is the first row's length;
\* the loops write c to cov[i][j] and cov[j][i] for i <= j.
covarianceMatrix(series) ==
    LET n == Len(series)
        T == IF n = 0 THEN 0 ELSE Len(series[1])
        mus == ArrayOf([i \in 1..n |-> mean(series[i])])
        c(i, j) == RDiv(covAcc(series, mus, i, j, T), Int2Rat(T - 1))
    IN  IF T < 2 THEN ArrayOf([i \in 1..n |-> ArrayOf([j \in 1..n |-> Zero])])
        ELSE ArrayOf([i \in 1..n |->
                 ArrayOf([j \in 1..n |-> IF i <= j THEN c(i, j) ELSE c(j, i)])])

\* diagFromCov(cov), lines 151-153
diagFromCov(cov) == ArrayOf([i \in 1..Len(cov) |-> MathSqrt(MathMax(Zero, cov[i][i]))])

\* x || 0: 0 and NaN are falsy.
OrZero(x) == IF IsNaN(x) THEN Zero ELSE x

\* correlationFromCov with the variances, not their square roots, in the denominator.
correlationFromCov_noSqrt(cov) ==
    LET n == Len(cov)
    IN  [i \in 1..n |-> [j \in 1..n |->
            LET denom == RMul(OrZero(MathMax(Zero, cov[i][i])), OrZero(MathMax(Zero, cov[j][j])))
            IN  IF RGt(denom, Zero) THEN RDiv(cov[i][j], denom) ELSE Zero]]

\* correlationFromCov(cov), lines 155-166
correlationFromCov(cov) ==
    LET n == Len(cov)
        sd == diagFromCov(cov)
    IN  [i \in 1..n |-> [j \in 1..n |->
            LET denom == RMul(OrZero(sd[i]), OrZero(sd[j]))
            IN  IF RGt(denom, Zero) THEN RDiv(cov[i][j], denom) ELSE Zero]]

\* dot(a, b), lines 172-176: the partial sum over the first k entries of a.
RECURSIVE dotTo(_, _, _)
dotTo(a, b, k) == IF k = 0 THEN Zero ELSE RAdd(dotTo(a, b, k - 1), RMul(a[k], Elem(b, k)))
dot(a, b) == dotTo(a, b, Len(a))

\* matVec(m, v), lines 168-170: each row reduced against v.
matVec(m, v) == ArrayOf([i \in 1..Len(m) |-> dot(m[i], v)])

-----------------------------------------------------------------------------
(* Portfolio math (annualized), lines 181-198 *)

\* RF_ANNUAL = 0.035, line 181
RF_ANNUAL == <<7, 200>>

\* portfolioReturnAnnual(weights, muMonthly), lines 183-186
portfolioReturnAnnual(w, muMonthly) == RMul(dot(w, muMonthly), Int2Rat(12))

\* portfolioVolAnnual(weights, covMonthly), lines 188-194
portfolioVolAnnual(w, covMonthly) ==
    LET covAnnual == ArrayOf([i \in 1..Len(covMonthly) |->
                        ArrayOf([j \in 1..Len(covMonthly[i]) |->
                                    RMul(covMonthly[i][j], Int2Rat(12))])])
        wCov == matVec(covAnnual, w)
        v == dot(w, wCov)
    IN  MathSqrt(MathMax(Zero, v))

\* sharpe(returnAnnual, volAnnual), lines 196-198
sharpe(returnAnnual, volAnnual) ==
    IF RGt(volAnnual, Zero) THEN RDiv(RSub(returnAnnual, RF_ANNUAL), volAnnual) ELSE Zero

-----------------------------------------------------------------------------
(* Standard normals and the mock monthly series, lines 99-106 and 210-261. *)
(* A function that draws from an rng closure returns, beside its value,    *)
(* the closure's state after the draws.                                    *)

\* `while (u === 0) u = rng()`: the first non-zero word and the state after it.
RECURSIVE drawNonZero(_)
drawNonZero(state) ==
    LET drawn(w, st) == IF w = <<0, 0>> THEN drawNonZero(st) ELSE [w |-> w, st |-> st]
        call(st) == drawn(rngOutput(st), st)
    IN  call(rngAdvance(state))

\* randn(rng), lines 99-106: Box-Muller on two non-zero uniforms.
randn(state) ==
    LET boxMuller(u, v) ==
            [x |-> RMul(MathSqrt(RMul(Int2Rat(2), NegLogOfWord(u.w))), Cos2Pi(v.w)),
             st |-> v.st]
        second(u) == boxMuller(u, drawNonZero(u.st))
    IN  second(drawNonZero(state))

\* k successive calls of randn(rng): their values in order and the state after them.
RECURSIVE randnSeq(_, _)
randnSeq(state, k) ==
    IF k = 0 THEN [x |-> <<>>, st |-> state]
    ELSE LET pushed(prev, z) == [x |-> Append(prev.x, z.x), st |-> z.st]
             call(prev) == pushed(prev, randn(prev.st))
         IN  call(randnSeq(state, k - 1))

\* rng() < 0.07, line 221: w / 2^32 < 0.07 iff w <= 300647710 = 4587 * 2^16 + 34078.
ShockDrawn(w) == LtW(w, <<4587, 34079>>)

\* One period of the four factors, lines 219-226: <<fMarket, fTech, fCrypto, fComm>>[t].
factorPeriod(state) ==
    LET sd == <<<<3, 100>>, <<1, 20>>, <<9, 100>>, <<1, 40>>>>
        pushed(shock, z) ==
            [f |-> ArrayOf([k \in 1..4 |-> RMul(RMul(z.x[k], sd[k]), shock)]), st |-> z.st]
        period(st0) ==
            pushed(IF ShockDrawn(rngOutput(st0)) THEN <<11, 5>> ELSE One, randnSeq(st0, 4))
    IN  period(rngAdvance(state))

\* The factor loop: the factors of periods 1..months and the state after them.
RECURSIVE factorSeries(_, _)
factorSeries(state, months) ==
    IF months = 0 THEN [f |-> <<>>, st |-> state]
    ELSE LET pushed(prev, cur) == [f |-> Append(prev.f, cur.f), st |-> cur.st]
             period(prev) == pushed(prev, factorPeriod(prev.st))
         IN  period(factorSeries(state, months - 1))

\* params[a.id] ?? default, lines 229-237
assetParams(id) ==
    CASE id = "aapl" -> [drift |-> <<21, 2000>>, vol |-> <<11, 200>>,
                         load |-> <<<<7, 10>>, <<3, 4>>, <<1, 20>>, <<-1, 20>>>>]
      [] id = "tsla" -> [drift |-> <<13, 1000>>, vol |-> <<19, 200>>,
                         load |-> <<<<13, 20>>, <<19, 20>>, <<1, 10>>, <<-1, 20>>>>]
      [] id = "gld" -> [drift |-> <<7, 2000>>, vol |-> <<7, 200>>,
                        load |-> <<<<1, 10>>, <<-1, 10>>, Zero, <<17, 20>>>>]
      [] id = "btc" -> [drift |-> <<7, 400>>, vol |-> <<29, 200>>,
                        load |-> <<<<9, 20>>, <<1, 5>>, One, <<-1, 20>>>>]
      [] OTHER -> [drift |-> <<3, 500>>, vol |-> <<3, 50>>,
                   load |-> <<<<1, 2>>, <<1, 5>>, <<1, 5>>, <<1, 5>>>>]

\* One asset's series, lines 238-254: out after t periods and the state after them.
RECURSIVE assetSeries(_, _, _, _)
assetSeries(p, factors, state, t) ==
    IF t = 0 THEN [out |-> <<>>, st |-> state]
    ELSE LET factorMix == RAdd(RAdd(RAdd(RMul(p.load[1], factors[t][1]),
                                         RMul(p.load[2], factors[t][2])),
                                    RMul(p.load[3], factors[t][3])),
                               RMul(p.load[4], factors[t][4]))
             r(eps) == clamp(RAdd(RAdd(p.drift, factorMix), RMul(eps, p.vol)),
                             <<-7, 20>>, <<9, 20>>)
             pushed(prev, eps) == [out |-> Append(prev.out, r(eps.x)), st |-> eps.st]
             period(prev) == pushed(prev, randn(prev.st))
         IN  period(assetSeries(p, factors, state, t - 1))

\* assets.map(...), lines 236-255: the series of assets 1..k and the state after them.
RECURSIVE allAssetSeries(_, _, _, _, _)
allAssetSeries(assetList, factors, months, state, k) ==
    IF k = 0 THEN [rows |-> <<>>, st |-> state]
    ELSE LET pushed(prev, cur) == [rows |-> Append(prev.rows, cur.out), st |-> cur.st]
             asset(prev) ==
                 pushed(prev, assetSeries(assetParams(assetList[k]), factors, prev.st, months))
         IN  asset(allAssetSeries(assetList, factors, months, state, k - 1))

\* generateMockSeries(assets, months, seed), lines 210-261, run on the closure
\* state `state0` = mulberry32(seed); `st` is the closure's state when it returns.
generateMockSeriesFrom(assetList, months, state0) ==
    LET result(rows) == [months |-> months, seriesByAsset |-> rows.rows, st |-> rows.st]
        series(fs) == result(allAssetSeries(assetList, fs.f, months, fs.st, Len(assetList)))
    IN  series(factorSeries(state0, months))

generateMockSeries(assetList, months, s) ==
    generateMockSeriesFrom(assetList, months, mulberry32(s))

-----------------------------------------------------------------------------
(* Long-only random portfolios and the sampled frontier, lines 266-312 *)

\* randomWeightsLongOnly(n, rng), lines 266-271: n exponential draws, normalized.
randomWeightsLongOnly(n, state) ==
    LET divided(a, d) == ArrayOf([i \in 1..n |-> RDiv(a[i], d)])
        orOne(s) == IF s = Zero THEN One ELSE s          \* s || 1
        normalized(a) == divided(a, orOne(RSum(a)))
    IN  [w |-> normalized(ArrayOf([i \in 1..n |-> NegLogClamped(rngWord(state, i))])),
         st |-> rngStateAfter(state, n)]

\* The sampling loop, lines 283-289: the cloud after k points and the state after them.
RECURSIVE sampleCloud(_, _, _, _, _)
sampleCloud(nAssets, muMonthly, covMonthly, state, k) ==
    IF k = 0 THEN [cloud |-> <<>>, st |-> state]
    ELSE LET point(w, ret, risk) ==
                 [risk |-> risk, ret |-> ret, sharpe |-> sharpe(ret, risk), w |-> w]
             pushed(prev, rw) ==
                 [cloud |-> Append(prev.cloud,
                                   point(rw.w, portfolioReturnAnnual(rw.w, muMonthly),
                                         portfolioVolAnnual(rw.w, covMonthly))),
                  st |-> rw.st]
             sample(prev) == pushed(prev, randomWeightsLongOnly(nAssets, prev.st))
         IN  sample(sampleCloud(nAssets, muMonthly, covMonthly, state, k - 1))

\* p inserted into the risk-sorted sequence `sorted`, after the entries it does
\* not precede (Array.prototype.sort is stable).
RECURSIVE insertByRisk(_, _)
insertByRisk(sorted, p) ==
    IF sorted = <<>> THEN <<p>>
    ELSE IF RLt(p.risk, sorted[Len(sorted)].risk)
         THEN Append(insertByRisk(SubSeq(sorted, 1, Len(sorted) - 1), p), sorted[Len(sorted)])
         ELSE Append(sorted, p)

\* [...cloud].sort((a, b) => a.risk - b.risk), line 292
RECURSIVE sortByRisk(_)
sortByRisk(cloud) ==
    IF cloud = <<>> THEN <<>>
    ELSE insertByRisk(sortByRisk(SubSeq(cloud, 1, Len(cloud) - 1)), cloud[Len(cloud)])

\* bucketCount, line 293
bucketCount == 40

\* sorted.filter((p) => p.risk >= lo && p.risk < hi), line 302
RECURSIVE inBucketOf(_, _, _)
inBucketOf(sorted, lo, hi) ==
    IF sorted = <<>> THEN <<>>
    ELSE LET rest == inBucketOf(SubSeq(sorted, 1, Len(sorted) - 1), lo, hi)
             p == sorted[Len(sorted)]
         IN  IF RGe(p.risk, lo) /\ RLt(p.risk, hi) THEN Append(rest, p) ELSE rest

\* inBucket.reduce((best, cur) => (cur.ret > best.ret ? cur : best), inBucket[0]), line 304
RECURSIVE bestByRet(_)
bestByRet(inBucket) ==
    IF Len(inBucket) = 1 THEN inBucket[1]
    ELSE LET best == bestByRet(SubSeq(inBucket, 1, Len(inBucket) - 1))
             cur == inBucket[Len(inBucket)]
         IN  IF RGt(cur.ret, best.ret) THEN cur ELSE best

\* The bucket loop with the bucket's best point put in front of the frontier
\* (unshift) and not behind it (push).
RECURSIVE frontierTo_unshift(_, _, _, _)
frontierTo_unshift(sorted, minR, step, b) ==
    IF b = 0 THEN <<>>
    ELSE LET pushed(prev, best) == <<[risk |-> best.risk, ret |-> best.ret]>> \o prev
             kept(prev, inBucket) ==
                 IF inBucket = <<>> THEN prev ELSE pushed(prev, bestByRet(inBucket))
             bucket(lo) == inBucketOf(sorted, lo, RAdd(lo, step))
         IN  kept(frontierTo_unshift(sorted, minR, step, b - 1),
                  bucket(RAdd(minR, RMul(Int2Rat(b - 1), step))))

\* The bucket loop, lines 299-306: the frontier after buckets 0..b-1.
RECURSIVE frontierTo(_, _, _, _)
frontierTo(sorted, minR, step, b) ==
    IF b = 0 THEN <<>>
    ELSE LET pushed(prev, best) == Append(prev, [risk |-> best.risk, ret |-> best.ret])
             kept(prev, inBucket) ==
                 IF inBucket = <<>> THEN prev ELSE pushed(prev, bestByRet(inBucket))
             bucket(lo) == inBucketOf(sorted, lo, RAdd(lo, step))
         IN  kept(frontierTo(sorted, minR, step, b - 1),
                  bucket(RAdd(minR, RMul(Int2Rat(b - 1), step))))

\* cloud.reduce((best, cur) => (cur.sharpe > best.sharpe ? cur : best), cloud[0]), line 309;
\* `undefined` for an empty cloud.
RECURSIVE bestSharpeOf(_)
bestSharpeOf(cloud) ==
    IF cloud = <<>> THEN "undefined"
    ELSE IF Len(cloud) = 1 THEN cloud[1]
    ELSE LET best == bestSharpeOf(SubSeq(cloud, 1, Len(cloud) - 1))
             cur == cloud[Len(cloud)]
         IN  IF RGt(cur.sharpe, best.sharpe) THEN cur ELSE best

\* generateEfficientFrontier(nAssets, muMonthly, covMonthly, points, seed), lines
\* 273-312, run on the closure state `state0` = mulberry32(seed).
generateEfficientFrontierFrom(nAssets, muMonthly, covMonthly, points, state0) ==
    LET minR(sorted) == IF sorted = <<>> THEN Zero ELSE sorted[1].risk
        maxR(sorted) == IF sorted = <<>> THEN One ELSE sorted[Len(sorted)].risk
        orOne(width) == IF width = Zero \/ IsNaN(width) THEN One ELSE width      \* || 1
        step(lo, hi) == orOne(RDiv(RSub(hi, lo), Int2Rat(bucketCount)))
        buckets(sorted, lo, hi) == frontierTo(sorted, lo, step(lo, hi), bucketCount)
        frontier(sorted) == buckets(sorted, minR(sorted), maxR(sorted))
        result(sc) ==
            [cloud |-> sc.cloud,
             frontier |-> frontier(sortByRisk(sc.cloud)),
             bestSharpe |-> bestSharpeOf(sc.cloud),
             st |-> sc.st]
    IN  result(sampleCloud(nAssets, muMonthly, covMonthly, state0, points))

generateEfficientFrontier(nAssets, muMonthly, covMonthly, points, s) ==
    generateEfficientFrontierFrom(nAssets, muMonthly, covMonthly, points, mulberry32(s))

-----------------------------------------------------------------------------
(* Weight renormalization, lines 335-367 *)

\* A plausible slip: the clipped vector is divided by its length, not its sum.
normalizeWeightsLongOnly_byCount(w) ==
    LET clipped == ArrayOf([i \in 1..Len(w) |-> MathMax(Zero, w[i])])
    IN  ArrayOf([i \in 1..Len(w) |-> RDiv(clipped[i], Int2Rat(Max2(1, Len(w))))])

\* normalizeWeightsLongOnly(w), lines 335-340
normalizeWeightsLongOnly(w) ==
    LET clipped == ArrayOf([i \in 1..Len(w) |-> MathMax(Zero, w[i])])
        s == RSum(clipped)
    IN  IF RLe(s, Zero) THEN ArrayOf([i \in 1..Len(w) |-> Rat(1, Len(w))])
        ELSE ArrayOf([i \in 1..Len(w) |-> RDiv(clipped[i], s)])

\* 1e-9, line 354
OtherSumFloor == <<1, 1000000000>>

\* prev.reduce((acc, x, i) => (i === idx ? acc : acc + x), 0), line 348
RECURSIVE otherSumTo(_, _, _)
otherSumTo(prev, idx, k) ==
    IF k = 0 THEN Zero
    ELSE IF k = idx THEN otherSumTo(prev, idx, k - 1)
    ELSE RAdd(otherSumTo(prev, idx, k - 1), prev[k])
otherSum(prev, idx) == otherSumTo(prev, idx, Len(prev))

\* updateWeightWithRenormalization with the others multiplied by `remaining` alone,
\* the division by prevOtherSum left out.
updateWeightWithRenormalization_noRescale(prev, idx, nextValue) ==
    LET n == Len(prev)
        v == clamp(nextValue, Zero, One)
        prevOtherSum == otherSum(prev, idx)
        remaining == RSub(One, v)
    IN  IF n = 1 THEN <<One>>
        ELSE IF RLe(prevOtherSum, OtherSumFloor)
        THEN LET share == RDiv(remaining, Int2Rat(n - 1))
             IN  normalizeWeightsLongOnly([i \in 1..n |-> IF i = idx THEN v ELSE share])
        ELSE normalizeWeightsLongOnly(
                     [i \in 1..n |-> IF i = idx THEN v ELSE RMul(prev[i], remaining)])

\* updateWeightWithRenormalization with the uniform branch taken only when the others
\* sum to 0 exactly.
updateWeightWithRenormalization_exactZero(prev, idx, nextValue) ==
    LET n == Len(prev)
        v == clamp(nextValue, Zero, One)
        prevOtherSum == otherSum(prev, idx)
        remaining == RSub(One, v)
    IN  IF n = 1 THEN <<One>>
        ELSE IF RLe(prevOtherSum, Zero)
        THEN LET share == RDiv(remaining, Int2Rat(n - 1))
             IN  normalizeWeightsLongOnly([i \in 1..n |-> IF i = idx THEN v ELSE share])
        ELSE LET scale == RDiv(remaining, prevOtherSum)
             IN  normalizeWeightsLongOnly(
                     [i \in 1..n |-> IF i = idx THEN v ELSE RMul(prev[i], scale)])

\* updateWeightWithRenormalization(prev, idx, nextValue), lines 342-367; idx is an
\* index of prev (the slider of an asset row), counted from 1.
updateWeightWithRenormalization(prev, idx, nextValue) ==
    LET n == Len(prev)
        v == clamp(nextValue, Zero, One)
        prevOtherSum == otherSum(prev, idx)
        remaining == RSub(One, v)
    IN  IF n = 1 THEN <<One>>
        ELSE IF RLe(prevOtherSum, OtherSumFloor)
        THEN LET share == RDiv(remaining, Int2Rat(n - 1))
             IN  normalizeWeightsLongOnly([i \in 1..n |-> IF i = idx THEN v ELSE share])
        ELSE LET scale == RDiv(remaining, prevOtherSum)
             IN  normalizeWeightsLongOnly(
                     [i \in 1..n |-> IF i = idx THEN v ELSE RMul(prev[i], scale)])

-----------------------------------------------------------------------------
(* CSV ingest, lines 378-424.  A text is the sequence of its lines (what   *)
(* split(/\r?\n/) returns) and a line the sequence of its comma-separated  *)
(* cells (what split(",") returns, always at least one cell).  The string  *)
(* functions are tabulated on the cells the texts are built from.          *)

\* String.prototype.trim
Trim(s) ==
    CASE s = " date" -> "date"
      [] s = "CLOSE " -> "CLOSE"
      [] s = " 121" -> "121"
      [] s = " " -> ""
      [] OTHER -> s

\* String.prototype.toLowerCase
ToLowerCase(s) ==
    CASE s = "Date" -> "date"
      [] s = "Close" -> "close"
      [] s = "CLOSE" -> "close"
      [] s = "Open" -> "open"
      [] s = "High" -> "high"
      [] s = "Low" -> "low"
      [] s = "Volume" -> "volume"
      [] OTHER -> s

\* An array element past the end
Undefined == "<undefined>"

\* Number(s) for a trimmed cell or `undefined`: the empty string converts to 0,
\* text that is no numeric literal (and `undefined`) to NaN.
ToNumber(s) ==
    CASE s = "" -> Zero
      [] s = "0" -> Zero
      [] s = "100" -> Int2Rat(100)
      [] s = "110" -> Int2Rat(110)
      [] s = "121" -> Int2Rat(121)
      [] s = "-50" -> Int2Rat(-50)
      [] OTHER -> NaN

\* The strings of the cells in the order of String.prototype.localeCompare.
Collation ==
    <<"", "-50", "0", "100", "110", "121", "2024-01", "2024-02", "2024-03", "2024-04",
      "abc", "close", "date", "high", "low", "open", "volume">>

RECURSIVE rankTo(_, _)
rankTo(s, k) == IF k = 0 \/ Collation[k] = s THEN k ELSE rankTo(s, k - 1)

\* a.localeCompare(b) < 0
localeCompareLess(a, b) == rankTo(a, Len(Collation)) < rankTo(b, Len(Collation))

\* The error messages of lines 384, 392, 408 and 422
TooShort == "CSV jest za krotki (min. 2 wiersze danych)."
ColumnsMissing == "CSV musi miec kolumny Date i Close (np. Date,Open,High,Low,Close,Volume)."
TooFewRecords == "Za malo poprawnych rekordow (Date/Close)."
TooFewReturns == "Po przeliczeniu zwrotow jest za malo punktow (min. 2)."

\* l.trim() is the empty string: the line is one cell of white space.
BlankLine(line) == Len(line) = 1 /\ Trim(line[1]) = ""

\* text.split(/\r?\n/).map((l) => l.trim()).filter(Boolean), lines 379-382
RECURSIVE nonBlankLines(_)
nonBlankLines(text) ==
    IF text = <<>> THEN <<>>
    ELSE IF BlankLine(Head(text)) THEN nonBlankLines(Tail(text))
    ELSE <<Head(text)>> \o nonBlankLines(Tail(text))

\* line.split(",").map((s) => s.trim()), line 398
cellsOf(line) == [k \in 1..Len(line) |-> Trim(line[k])]

\* lines[0].split(",").map((s) => s.trim().toLowerCase()), line 387
headerOf_caseSensitive(line) == [k \in 1..Len(line) |-> Trim(line[k])]
headerOf(line) == [k \in 1..Len(line) |-> ToLowerCase(Trim(line[k]))]

\* header.indexOf(name), counted from 1; 0 where the code has -1.
RECURSIVE indexFrom(_, _, _)
indexFrom(header, name, k) ==
    IF k > Len(header) THEN 0
    ELSE IF header[k] = name THEN k
    ELSE indexFrom(header, name, k + 1)
indexOf(header, name) == indexFrom(header, name, 1)

\* cols[idx]
cellAt(cols, idx) == IF idx \in 1..Len(cols) THEN cols[idx] ELSE Undefined

\* The row of a line, lines 398-405: it is pushed unless `!date` or the close is not finite.
rowOf(line, dateIdx, closeIdx) ==
    [date |-> cellAt(cellsOf(line), dateIdx),
     close |-> ToNumber(cellAt(cellsOf(line), closeIdx))]
keptRow_anyDate(row) == ~IsNaN(row.close)
keptRow(row) == row.date \notin {"", Undefined} /\ ~IsNaN(row.close)

\* The loop of lines 397-406 over the lines k.. of `lines`
RECURSIVE rowsFrom(_, _, _, _)
rowsFrom(lines, dateIdx, closeIdx, k) ==
    IF k > Len(lines) THEN <<>>
    ELSE IF keptRow(rowOf(lines[k], dateIdx, closeIdx))
    THEN <<rowOf(lines[k], dateIdx, closeIdx)>> \o rowsFrom(lines, dateIdx, closeIdx, k + 1)
    ELSE rowsFrom(lines, dateIdx, closeIdx, k + 1)

\* rows.sort((a, b) => a.date.localeCompare(b.date)), line 411 (a stable sort)
RECURSIVE insertByDate(_, _)
insertByDate(sorted, row) ==
    IF sorted = <<>> THEN <<row>>
    ELSE IF localeCompareLess(row.date, sorted[Len(sorted)].date)
         THEN Append(insertByDate(SubSeq(sorted, 1, Len(sorted) - 1), row), sorted[Len(sorted)])
         ELSE Append(sorted, row)

RECURSIVE sortByDate(_)
sortByDate(rows) ==
    IF rows = <<>> THEN <<>>
    ELSE insertByDate(sortByDate(SubSeq(rows, 1, Len(rows) - 1)), rows[Len(rows)])

\* The loop of lines 415-420: rets after the pairs ending at rows 2..i
RECURSIVE retsTo(_, _)
retsTo(rows, i) ==
    IF i < 2 THEN <<>>
    ELSE IF RLe(rows[i - 1].close, Zero) THEN retsTo(rows, i - 1)
    ELSE Append(retsTo(rows, i - 1), RSub(RDiv(rows[i].close, rows[i - 1].close), One))

Thrown(message) == [ok |-> FALSE, error |-> message, rets |-> <<>>]
Returned(rets) == [ok |-> TRUE, error |-> "", rets |-> rets]

\* parseCsvOhlcvCloseReturns(text), lines 378-424
parseCsvOhlcvCloseReturns(text) ==
    LET converted(rets) == IF Len(rets) < 2 THEN Thrown(TooFewReturns) ELSE Returned(rets)
        filtered(rows) ==
            IF Len(rows) < 2 THEN Thrown(TooFewRecords)
            ELSE converted(retsTo(sortByDate(rows), Len(rows)))
        located(lines, dateIdx, closeIdx) ==
            IF dateIdx = 0 \/ closeIdx = 0 THEN Thrown(ColumnsMissing)
            ELSE filtered(rowsFrom(lines, dateIdx, closeIdx, 2))
        headed(lines, header) == located(lines, indexOf(header, "date"), indexOf(header, "close"))
        split(lines) ==
            IF Len(lines) < 3 THEN Thrown(TooShort) ELSE headed(lines, headerOf(lines[1]))
    IN  split(nonBlankLines(text))

-----------------------------------------------------------------------------
(* Series alignment, lines 428-433 *)

RECURSIVE MinOf(_)
MinOf(S) ==
    LET x == CHOOSE y \in S : TRUE
    IN  IF S = {x} THEN x ELSE LET m == MinOf(S \ {x}) IN IF x < m THEN x ELSE m

\* s.slice(s.length - N): the last N entries; the whole of s when it has fewer than N
\* (a negative start counts from the end and stops at 0).
sliceLast(s, N) == IF Len(s) <= N THEN s ELSE SubSeq(s, Len(s) - N + 1, Len(s))

\* alignSeriesToCommonLength(seriesByAsset), lines 428-433; Math.min() of no
\* lengths is Infinity, which is not finite.
alignSeriesToCommonLength(series) ==
    LET lens == {Len(series[i]) : i \in 1..Len(series)} \ {0}
    IN  IF lens = {} THEN series
        ELSE IF MinOf(lens) < 2 THEN series
        ELSE ArrayOf([i \in 1..Len(series) |->
                         sliceLast(series[i], MinOf(lens))])

-----------------------------------------------------------------------------
(* States of the parts a specification does not exercise *)

SessionIdle ==
    /\ assets = <<>>
    /\ weights = <<>>
    /\ seed = 0
    /\ uploadedNames = <<>>
    /\ seriesByAsset = <<>>
    /\ frontierGenerated = FALSE
    /\ aiText = ""
    /\ aiStatus = "idle"
    /\ uploads = <<>>
    /\ requests = <<>>
    /\ pending = {}
    /\ clicks = 0
    /\ lastEvent = [op |-> "none"]

RenormIdle == renorm = [w |-> <<>>, prev |-> <<>>, idx |-> 0, v |-> Zero, calls |-> 0]

AlignedIdle == aligned = [phase |-> "idle", input |-> <<>>, output |-> <<>>]

StatsIdle == stats = [phase |-> "idle", mu |-> <<>>, cov |-> <<>>, corr |-> <<>>]

SamplerIdle == sampler = [rngState |-> <<0, 0>>, runs |-> <<>>]

CsvIdle == csv = [phase |-> "idle", text |-> <<>>, result |-> <<>>]

EndpointIdle == endpoint = [phase |-> "idle"]

-----------------------------------------------------------------------------
(* SpecRenorm: sequences of updateWeightWithRenormalization calls on a     *)
(* long-only weight vector that sums to 1.                                 *)

\* How many calls a behaviour makes.
MaxCalls == 3

\* 5e-10: a weight below the 1e-9 floor of line 354.  The session reaches such a
\* vector when the text box sets a weight to 99.99999995 (%).
Tiny == <<1, 2000000000>>
AlmostOne == <<1999999999, 2000000000>>

\* Vectors whose mass sits at index 1 up to a remainder of 5e-10.
ConcentratedVectors == {<<AlmostOne, Tiny>>, <<AlmostOne, Tiny, Zero>>}

InitialVectors ==
    { <<One>>,
      <<<<1, 2>>, <<1, 2>>>>, <<One, Zero>>, <<<<3, 10>>, <<7, 10>>>>,
      <<<<1, 2>>, <<3, 10>>, <<1, 5>>>>, <<One, Zero, Zero>>, <<Zero, Zero, One>>,
      <<<<1, 3>>, <<1, 3>>, <<1, 3>>>> } \cup ConcentratedVectors

\* nextValue: fractions of the slider range, and values outside [0, 1].
NextValues == {<<-1, 2>>, Zero, <<2, 5>>, <<4, 5>>, One, <<3, 2>>}

\* The indices a call edits.  A vector of ConcentratedVectors is edited at the index
\* that holds the mass: the products of an edit elsewhere (AlmostOne * 3/5) do not
\* fit the model checker's 32-bit integers.
EditableIndices(w) == IF w \in ConcentratedVectors THEN {1} ELSE 1..Len(w)

InitRenorm ==
    /\ SessionIdle /\ AlignedIdle /\ StatsIdle /\ SamplerIdle /\ CsvIdle /\ EndpointIdle
    /\ \E w \in InitialVectors :
          renorm = [w |-> w, prev |-> w, idx |-> 0, v |-> Zero, calls |-> 0]

\* setWeights((prev) => updateWeightWithRenormalization(prev, i, pct)), lines 865, 880
UpdateWeight(idx, nextValue) ==
    /\ renorm.calls < MaxCalls
    /\ idx \in EditableIndices(renorm.w)
    /\ renorm' = [w |-> updateWeightWithRenormalization(renorm.w, idx, nextValue),
                  prev |-> renorm.w, idx |-> idx, v |-> nextValue,
                  calls |-> renorm.calls + 1]
    /\ UNCHANGED <<sessionVars, aligned, stats, sampler, csv, endpoint>>

NextRenorm == \E idx \in 1..3, nextValue \in NextValues : UpdateWeight(idx, nextValue)

SpecRenorm == InitRenorm /\ [][NextRenorm]_vars

\* All entries >= 0.
NonNegative(w) == \A i \in 1..Len(w) : RGe(w[i], Zero)

\* |sum - 1| <= 1e-6
SumsToOne(w) == RLe(RAbs(RSub(RSum(w), One)), <<1, 1000000>>)

\* C1: after any sequence of updateWeightWithRenormalization calls on a long-only
\* vector summing to 1 (any index, any value, values outside [0, 1] included), every
\* entry is >= 0 and the sum is within 1e-6 of 1.
C1_WeightInvariant ==
    /\ Len(renorm.w) = Len(renorm.prev)
    /\ NonNegative(renorm.w)
    /\ SumsToOne(renorm.w)

\* C1 witness: a third call, with a value above 1, has produced a vector of three
\* weights of which two are positive.
C1_Witness ==
    /\ renorm.calls = 3
    /\ RGt(renorm.v, One)
    /\ Len(renorm.w) = 3
    /\ renorm.prev # renorm.w
    /\ \E i \in 1..3 : renorm.prev[i] # Zero /\ renorm.prev[i] # One

\* The last call edited a vector of two or more weights with a value in [0, 1].
InRangeEdit ==
    /\ renorm.calls >= 1
    /\ Len(renorm.prev) >= 2
    /\ RGe(renorm.v, Zero) /\ RLe(renorm.v, One)

\* The vector the claims of section 4.5 expect from the proportional branch: idx gets v,
\* every other index i gets prev[i] * (1 - v) / (sum of the others).
ProportionalRescale(prev, idx, v) ==
    [i \in 1..Len(prev) |->
        IF i = idx THEN v
        ELSE RMul(RDiv(prev[i], otherSum(prev, idx)), RSub(One, v))]

\* The vector expected from the uniform branch: idx gets v, every other index gets
\* (1 - v) / (n - 1).
UniformSplit(prev, idx, v) ==
    [i \in 1..Len(prev) |->
        IF i = idx THEN v ELSE RDiv(RSub(One, v), Int2Rat(Len(prev) - 1))]

\* C4 as stated: when the other weights sum to anything positive, a call with v in
\* [0, 1] sets index idx to v and multiplies every other weight by (1 - v) / otherSum.
C4_AsStated ==
    (InRangeEdit /\ RGt(otherSum(renorm.prev, renorm.idx), Zero))
        => renorm.w = ProportionalRescale(renorm.prev, renorm.idx, renorm.v)

\* C4: when the other weights sum to more than 1e-9, a call with v in [0, 1] sets
\* index idx to v and multiplies every other weight by (1 - v) / otherSum, so that the
\* others keep their ratios ([0.5, 0.3, 0.2] with index 0 set to 0.8 gives
\* [0.8, 0.12, 0.08]).
C4_ProportionalRescale ==
    /\ (InRangeEdit /\ RGt(otherSum(renorm.prev, renorm.idx), OtherSumFloor))
          => renorm.w = ProportionalRescale(renorm.prev, renorm.idx, renorm.v)
    /\ updateWeightWithRenormalization(
           <<<<1, 2>>, <<3, 10>>, <<1, 5>>>>, 1, <<4, 5>>)
         = <<<<4, 5>>, <<3, 25>>, <<2, 25>>>>

\* C4 witness: the example of the claim has been executed.
C4_Witness ==
    /\ InRangeEdit
    /\ renorm.prev = <<<<1, 2>>, <<3, 10>>, <<1, 5>>>>
    /\ renorm.idx = 1
    /\ renorm.v = <<4, 5>>
    /\ renorm.w = <<<<4, 5>>, <<3, 25>>, <<2, 25>>>>

\* C5: when the other weights sum to (approximately) 0, at most 1e-9, a call with v in
\* [0, 1] on a vector of n >= 2 weights sets index idx to v and gives every other index
\* (1 - v) / (n - 1) ([1, 0, 0] with index 0 set to 0.4 gives [0.4, 0.3, 0.3]).
C5_UniformSplit ==
    /\ (InRangeEdit /\ RLe(otherSum(renorm.prev, renorm.idx), OtherSumFloor))
          => renorm.w = UniformSplit(renorm.prev, renorm.idx, renorm.v)
    /\ updateWeightWithRenormalization(<<One, Zero, Zero>>, 1, <<2, 5>>)
         = <<<<2, 5>>, <<3, 10>>, <<3, 10>>>>

\* C5 witness: the others summed to 5e-10, not 0, and the remainder was split evenly.
C5_Witness ==
    /\ InRangeEdit
    /\ renorm.prev = <<AlmostOne, Tiny, Zero>>
    /\ renorm.idx = 1
    /\ renorm.v = <<2, 5>>
    /\ renorm.w = <<<<2, 5>>, <<3, 10>>, <<3, 10>>>>

-----------------------------------------------------------------------------
(* Spec: the session of PortfolioOptimizerApp, lines 438-660 and the handlers *)
(* of the buttons and of the asset rows.  A user event runs its handler and  *)
(* the render it schedules; the effects whose dependencies the render        *)
(* changed run before the next event.  The text of an uploaded file and the  *)
(* answer of the commentary endpoint arrive as events of their own.          *)

\* How many events a behaviour handles: those of the user, the files read and the
\* answers of the endpoint.
MaxClicks == 4

\* How many instruments the session holds at most.
MaxAssets == 3

\* How many times the seed button is pressed at most.
MaxSeedBumps == 1

\* How many files are being read at the same time at most.
MaxUploads == 1

\* How many commentary requests wait for their answer at the same time at most.
MaxRequests == 2

InitialSeed == 1337

\* INITIAL_ASSETS, lines 72-74: id "inst_1", name "Instrument_1".  An asset is its id
\* and the number of its name (0: a name that is not Instrument_<digits>).
INITIAL_ASSETS == <<[id |-> 1, name |-> 1]>>

\* Number(e.target.value) / 100 of the range input, clamp(val / 100, 0, 1) of the text
\* box: lines 864 and 879.
SliderValues == {Zero, <<2, 5>>, One}

\* The dependency lists of the effects: [assets.length] of lines 469-474 and 581-593,
\* [assets, seed] of lines 478-482, [muMonthly, covMonthly] of lines 528-530 (both
\* memoized on alignedSeries, which is memoized on seriesByAsset, lines 522-524).
AssetsLengthDep == "assets.length"
AssetsDep == "assets"
SeedDep == "seed"
StatsDep == "muMonthly, covMonthly"

\* A row of generateMockSeries(assets, 84, s).seriesByAsset: the ids of the session
\* ("inst_1", "inst_<Date.now()>") have no entry in params, so that row k is drawn with
\* the default parameters from the closure of seed s after the rows before it.
mockRow(s, k) == [source |-> "MOCK", seed |-> s, row |-> k, file |-> ""]

\* generateMockSeries(assets, 84, s).seriesByAsset of lines 466 and 480
mockSeries(assetList, s) == [k \in 1..Len(assetList) |-> mockRow(s, k)]

\* The returns parsed from a file, as a row of seriesByAsset.
csvRow(file, rets) == [source |-> "CSV", seed |-> 0, row |-> Len(rets), file |-> file]

\* The files the user picks: 13 monthly closes, 4 monthly closes, no Close column.
GoodText ==
    <<<<"Date", "Open", "Close">>,
      <<"2024-01", "100", "100">>, <<"2024-01", "100", "110">>, <<"2024-01", "100", "121">>,
      <<"2024-02", "100", "100">>, <<"2024-02", "100", "110">>, <<"2024-02", "100", "121">>,
      <<"2024-03", "100", "100">>, <<"2024-03", "100", "110">>, <<"2024-03", "100", "121">>,
      <<"2024-04", "100", "100">>, <<"2024-04", "100", "110">>, <<"2024-04", "100", "121">>,
      <<"2024-04", "100", "110">>>>

ShortText ==
    <<<<"Date", "Close">>,
      <<"2024-01", "100">>, <<"2024-02", "110">>, <<"2024-03", "121">>, <<"2024-04", "110">>>>

BadText ==
    <<<<"Date", "Open">>, <<"2024-01", "100">>, <<"2024-02", "110">>>>

Files ==
    {[name |-> "good.csv", text |-> GoodText],
     [name |-> "short.csv", text |-> ShortText],
     [name |-> "bad.csv", text |-> BadText]}

\* useState initialisers, lines 442-467, and the effects of the mount still to run.
Init ==
    /\ assets = INITIAL_ASSETS
    /\ seed = InitialSeed
    /\ weights = [i \in 1..Len(INITIAL_ASSETS) |-> Rat(1, Len(INITIAL_ASSETS))]
    /\ uploadedNames = [i \in 1..Len(INITIAL_ASSETS) |-> ""]
    /\ seriesByAsset = mockSeries(INITIAL_ASSETS, InitialSeed)
    /\ frontierGenerated = FALSE
    /\ aiText = ""
    /\ aiStatus = "idle"
    /\ uploads = <<>>
    /\ requests = <<>>
    /\ pending = {AssetsLengthDep, AssetsDep, SeedDep, StatsDep}
    /\ clicks = 0
    /\ lastEvent = [op |-> "mount", detail |-> "", weights |-> <<>>,
                    series |-> mockSeries(INITIAL_ASSETS, InitialSeed),
                    names |-> <<"">>, flag |-> FALSE, n |-> 1, requests |-> <<>>,
                    aiText |-> "", aiStatus |-> "idle"]
    /\ RenormIdle /\ AlignedIdle /\ StatsIdle /\ SamplerIdle /\ CsvIdle /\ EndpointIdle

\* Array.from({ length: n }, (_, i) => w[i] ?? fill)
ResizeWith(w, n, fill) == [i \in 1..n |-> IF i <= Len(w) THEN w[i] ELSE fill]

\* The updater of lines 469-474 with new slots filled with 0.
resizeWeights_zeroFill(w, n) == IF Len(w) = n THEN w ELSE ResizeWith(w, n, Zero)

\* The updater of the effect of lines 469-474.
resizeWeights(w, n) == IF Len(w) = n THEN w ELSE ResizeWith(w, n, RDiv(One, Int2Rat(n)))

\* The updater of lines 581-587 with the vector of the right length returned as it is.
keepWeightsAligned_noNormalize(w, n) ==
    IF Len(w) = n THEN w
    ELSE ResizeWith(w, n, RDiv(One, Int2Rat(n)))

\* The weights updater of the effect of lines 581-587.
keepWeightsAligned(w, n) ==
    IF Len(w) = n THEN normalizeWeightsLongOnly(w)
    ELSE ResizeWith(w, n, RDiv(One, Int2Rat(n)))

\* The uploadedNames updater of the effect of lines 588-591.
\* (nms[i] ?? "" of a hole is "").
keepNamesAligned(nms, n) ==
    IF Len(nms) = n THEN nms
    ELSE [i \in 1..n |-> IF i <= Len(nms) /\ nms[i] # Undefined THEN nms[i] ELSE ""]

\* const next = [...prev]; next[assetIndex] = value: an index past the end leaves
\* holes before it.
setAt(prev, index, value, hole) ==
    [i \in 1..Max2(Len(prev), index) |->
        IF i = index THEN value ELSE IF i <= Len(prev) THEN prev[i] ELSE hole]

\* A hole of seriesByAsset: it reads as undefined.
HoleRow == [source |-> "HOLE", seed |-> 0, row |-> 0, file |-> ""]

\* covarianceMatrix(alignedSeries) of the render, lines 139-146: T is the length of the
\* first row, and series[i][t] of a hole is a TypeError, which unmounts the component.
RenderThrows(series) ==
    /\ Len(series) >= 1
    /\ series[1] # HoleRow
    /\ \E i \in 1..Len(series) : series[i] = HoleRow

\* The effect of lines 528-530 with nothing to run.
resetFrontier_never(changed, flag) == flag

\* The effect of lines 528-530: setFrontierGenerated(false) when the statistics changed.
resetFrontier(changed, flag) == IF StatsDep \in changed THEN FALSE ELSE flag

\* The effects of the dependencies the last render changed, in the order of their
\* declaration; the updaters queued on weights are applied one after the other by the
\* render that follows, and the series set by the effect of lines 478-482 are a change
\* of the statistics for the effects of that render.
FlushEffects ==
    /\ pending # {}
    /\ ~RenderThrows(seriesByAsset)
    /\ weights' = IF AssetsLengthDep \in pending
                  THEN keepWeightsAligned(resizeWeights(weights, Len(assets)), Len(assets))
                  ELSE weights
    /\ uploadedNames' = IF AssetsLengthDep \in pending
                        THEN keepNamesAligned(uploadedNames, Len(assets))
                        ELSE uploadedNames
    /\ seriesByAsset' = IF pending \cap {AssetsDep, SeedDep} # {}
                        THEN mockSeries(assets, seed)
                        ELSE seriesByAsset
    /\ frontierGenerated' = resetFrontier(pending, frontierGenerated)
    /\ pending' = IF pending \cap {AssetsDep, SeedDep} # {} THEN {StatsDep} ELSE {}
    /\ UNCHANGED <<assets, seed, aiText, aiStatus, uploads, requests, clicks, lastEvent,
                   callVars>>

\* An event is handled once the effects of the previous one have run.
Settled == pending = {} /\ ~RenderThrows(seriesByAsset)

\* What an event finds, kept for the properties that compare before and after.
Found(op, detail) ==
    [op |-> op, detail |-> detail, weights |-> weights, series |-> seriesByAsset,
     names |-> uploadedNames, flag |-> frontierGenerated, n |-> Len(assets),
     requests |-> requests, aiText |-> aiText, aiStatus |-> aiStatus]

Event(op, detail) ==
    /\ Settled
    /\ clicks < MaxClicks
    /\ clicks' = clicks + 1
    /\ lastEvent' = Found(op, detail)

UserEvent(op) == Event(op, "")

RECURSIVE MaxOf(_)
MaxOf(S) ==
    IF S = {} THEN 0
    ELSE LET x == CHOOSE y \in S : TRUE
         IN  Max2(x, MaxOf(S \ {x}))

\* addInstrument, lines 484-495.  Date.now() of the new id: a value no earlier event
\* has seen (the event counter, past the id of INITIAL_ASSETS).
addInstrument ==
    /\ UserEvent("addInstrument")
    /\ Len(assets) < MaxAssets
    /\ LET existingNumbers == {assets[i].name : i \in 1..Len(assets)} \ {0}
           nextNum == IF existingNumbers # {} THEN MaxOf(existingNumbers) + 1 ELSE 1
           newId == clicks + 2
       IN  assets' = Append(assets, [id |-> newId, name |-> nextNum])
    /\ pending' = {AssetsLengthDep, AssetsDep}
    /\ UNCHANGED <<weights, seed, uploadedNames, seriesByAsset, frontierGenerated,
                   aiText, aiStatus, uploads, requests, callVars>>

\* removeInstrument(id), lines 497-499, from the Remove button of a row.
removeInstrument(id) ==
    /\ UserEvent("removeInstrument")
    /\ \E i \in 1..Len(assets) : assets[i].id = id
    /\ assets' = SelectSeq(assets, LAMBDA a : a.id # id)
    /\ pending' = {AssetsLengthDep, AssetsDep}
    /\ UNCHANGED <<weights, seed, uploadedNames, seriesByAsset, frontierGenerated,
                   aiText, aiStatus, uploads, requests, callVars>>

\* onChange of the range input and of the text box of row i with the statistics taken
\* for changed.
setWeight_invalidating(i, pct) ==
    /\ UserEvent("setWeight")
    /\ i \in 1..Len(assets)
    /\ weights' = updateWeightWithRenormalization(weights, i, pct)
    /\ pending' = {StatsDep}
    /\ UNCHANGED <<assets, seed, uploadedNames, seriesByAsset, frontierGenerated,
                   aiText, aiStatus, uploads, requests, callVars>>

\* onChange of the range input and of the text box of row i, lines 863-866, 875-881.
setWeight(i, pct) ==
    /\ UserEvent("setWeight")
    /\ i \in 1..Len(assets)
    /\ weights' = updateWeightWithRenormalization(weights, i, pct)
    /\ UNCHANGED <<assets, seed, uploadedNames, seriesByAsset, frontierGenerated,
                   aiText, aiStatus, uploads, requests, pending, callVars>>

\* resetWeights, lines 571-574
resetWeights ==
    /\ UserEvent("resetWeights")
    /\ weights' = [i \in 1..Len(assets) |-> RDiv(One, Int2Rat(Len(assets)))]
    /\ UNCHANGED <<assets, seed, uploadedNames, seriesByAsset, frontierGenerated,
                   aiText, aiStatus, uploads, requests, pending, callVars>>

\* randomizeWeights, lines 576-579
randomizeWeights ==
    /\ UserEvent("randomizeWeights")
    /\ weights' = randomWeightsLongOnly(Len(assets), mulberry32(seed + 99)).w
    /\ UNCHANGED <<assets, seed, uploadedNames, seriesByAsset, frontierGenerated,
                   aiText, aiStatus, uploads, requests, pending, callVars>>

\* setSeed((s) => s + 1), line 698
bumpSeed ==
    /\ UserEvent("bumpSeed")
    /\ seed < InitialSeed + MaxSeedBumps
    /\ seed' = seed + 1
    /\ pending' = {SeedDep}
    /\ UNCHANGED <<assets, weights, uploadedNames, seriesByAsset, frontierGenerated,
                   aiText, aiStatus, uploads, requests, callVars>>

\* onClick of the Generate Frontier button, lines 689-696: setFrontierGenerated(true)
generateFrontier ==
    /\ UserEvent("generateFrontier")
    /\ frontierGenerated' = TRUE
    /\ UNCHANGED <<assets, weights, seed, uploadedNames, seriesByAsset,
                   aiText, aiStatus, uploads, requests, pending, callVars>>

\* The frontier of the render, lines 538-541: nothing unless the flag is set, otherwise
\* the cloud of generateEfficientFrontier on the statistics of the series.
exposedFrontier(flag, n, series) ==
    IF ~flag THEN [cloud |-> "none", of |-> <<>>]
    ELSE [cloud |-> "generated", of |-> <<n, series>>]

\* onChange of the file input of row i, lines 912-916: handleUploadCsv(i, f) up to the
\* await of readTextFile, line 502.  The call holds the index i of the row; the id of the
\* asset of that row is kept beside it for the properties.
startUpload(i, file) ==
    /\ UserEvent("startUpload")
    /\ i \in 1..Len(assets)
    /\ Len(uploads) < MaxUploads
    /\ uploads' = Append(uploads, [assetIndex |-> i, file |-> file, startedFor |-> assets[i].id])
    /\ UNCHANGED <<assets, weights, seed, uploadedNames, seriesByAsset, frontierGenerated,
                   aiText, aiStatus, requests, pending, callVars>>

TooFewPoints == "Plik CSV musi zawierac co najmniej 12 punktow danych."

\* parseCsvOhlcvCloseReturns(await readTextFile(file)), lines 502-503, of every file.
returnsMonthly == [file \in Files |-> parseCsvOhlcvCloseReturns(file.text)]

\* handleUploadCsv after the await with the name of the file stored before the parse.
handleUploadCsv_nameFirst(names, series, assetIndex, file) ==
    LET checked(parsed) ==
            IF ~parsed.ok
            THEN [accepted |-> FALSE, alert |-> parsed.error,
                  names |-> setAt(names, assetIndex, file.name, Undefined), series |-> series]
            ELSE IF Len(parsed.rets) < 12
            THEN [accepted |-> FALSE, alert |-> TooFewPoints,
                  names |-> setAt(names, assetIndex, file.name, Undefined), series |-> series]
            ELSE [accepted |-> TRUE, alert |-> "",
                  names |-> setAt(names, assetIndex, file.name, Undefined),
                  series |-> setAt(series, assetIndex, csvRow(file.name, parsed.rets), HoleRow)]
    IN  checked(returnsMonthly[file])

\* handleUploadCsv after the await, lines 503-518, on the state it finds: the throw of
\* the parser is caught by the caller, line 914, which alerts String(err).
handleUploadCsv(names, series, assetIndex, file) ==
    LET checked(parsed) ==
            IF ~parsed.ok
            THEN [accepted |-> FALSE, alert |-> parsed.error,
                  names |-> names, series |-> series]
            ELSE IF Len(parsed.rets) < 12
            THEN [accepted |-> FALSE, alert |-> TooFewPoints,
                  names |-> names, series |-> series]
            ELSE [accepted |-> TRUE, alert |-> "",
                  names |-> setAt(names, assetIndex, file.name, Undefined),
                  series |-> setAt(series, assetIndex, csvRow(file.name, parsed.rets), HoleRow)]
    IN  checked(returnsMonthly[file])

\* Sequence s without its element k.
Without(s, k) == [i \in 1..(Len(s) - 1) |-> IF i < k THEN s[i] ELSE s[i + 1]]

\* The text of the file of upload k has been read: the rest of handleUploadCsv runs.
fileRead(k) ==
    /\ k \in 1..Len(uploads)
    /\ \E done \in {handleUploadCsv(uploadedNames, seriesByAsset,
                                    uploads[k].assetIndex, uploads[k].file)} :
          /\ uploadedNames' = done.names
          /\ seriesByAsset' = done.series
          /\ pending' = IF done.accepted THEN {StatsDep} ELSE {}
          /\ IF done.accepted THEN Event("uploadAccepted", uploads[k])
             ELSE Event("uploadRejected", done.alert)
    /\ uploads' = Without(uploads, k)
    /\ UNCHANGED <<assets, weights, seed, frontierGenerated, aiText, aiStatus, requests,
                   callVars>>

\* RenameValues: what the name input of a row is edited to (0: a name that is not
\* Instrument_<digits>).
RenameValues == {0}

\* onChange of the name input of a row, lines 836-843: a new assets array with the name
\* and the ticker of that asset replaced.
renameInstrument(id, name) ==
    /\ UserEvent("renameInstrument")
    /\ \E i \in 1..Len(assets) : assets[i].id = id /\ assets[i].name # name
    /\ assets' = [i \in 1..Len(assets) |->
                     IF assets[i].id = id THEN [assets[i] EXCEPT !.name = name]
                     ELSE assets[i]]
    /\ pending' = {AssetsDep}
    /\ UNCHANGED <<weights, seed, uploadedNames, seriesByAsset, frontierGenerated,
                   aiText, aiStatus, uploads, requests, callVars>>

\* The payload of lines 602-639 cannot be built: corr has one row per row of the
\* series, and assets[i + j + 1].ticker of a row past the assets is a TypeError.
PayloadThrows(assetList, series) == Len(series) >= 2 /\ Len(series) > Len(assetList)

TypeErrorMessage == "Cannot read properties of undefined (reading 'ticker')"

\* dataQuality.assets of the payload, lines 631-636
dataQuality(assetList, names) ==
    [i \in 1..Len(assetList) |->
        [ticker |-> assetList[i].name,
         source |-> IF i <= Len(names) /\ names[i] \notin {"", Undefined}
                    THEN "CSV" ELSE "MOCK",
         file |-> IF i <= Len(names) /\ names[i] \notin {"", Undefined}
                  THEN names[i] ELSE "null"]]

\* fetchAiCommentary up to the await of fetch, lines 595-647, from the button of the
\* header (lines 705-710) or the button of the commentary panel (lines 753-764,
\* disabled while the frontier is not generated or a commentary is loading).
fetchAiCommentary(button) ==
    /\ UserEvent("fetchAiCommentary")
    /\ button = "panel" => (frontierGenerated /\ aiStatus # "loading")
    /\ Len(requests) < MaxRequests
    /\ IF PayloadThrows(assets, seriesByAsset)
       THEN /\ aiStatus' = "error"
            /\ aiText' = TypeErrorMessage
            /\ requests' = requests
       ELSE /\ aiStatus' = "loading"
            /\ aiText' = aiText
            /\ requests' = Append(requests, [click |-> clicks + 1,
                                             dataQuality |-> dataQuality(assets, uploadedNames)])
    /\ UNCHANGED <<assets, weights, seed, uploadedNames, seriesByAsset, frontierGenerated,
                   uploads, pending, callVars>>

\* What fetch gives: the response of the endpoint (its status, whether its body is JSON,
\* the text field of that JSON) or a rejection (the network failed).
Answers ==
    {[kind |-> "response", status |-> 200, text |-> "komentarz"],
     [kind |-> "response", status |-> 200, text |-> Undefined],
     [kind |-> "response", status |-> 500, text |-> Undefined],
     [kind |-> "rejection", status |-> 0, text |-> "Failed to fetch"]}

\* res.ok
ok(status) == status >= 200 /\ status <= 299

\* `HTTP ${res.status}` of line 649
HttpMessage(status) ==
    CASE status = 404 -> "HTTP 404"
      [] status = 405 -> "HTTP 405"
      [] status = 500 -> "HTTP 500"
      [] OTHER -> "HTTP"

\* fetchAiCommentary after the await with the status of the response not looked at.
settleCommentary_anyStatus(answer) ==
    IF answer.kind = "rejection" THEN [aiStatus |-> "error", aiText |-> answer.text]
    ELSE [aiStatus |-> "idle",
          aiText |-> IF answer.text = Undefined THEN "" ELSE answer.text]

\* fetchAiCommentary after the await, lines 649-659
settleCommentary(answer) ==
    IF answer.kind = "rejection" THEN [aiStatus |-> "error", aiText |-> answer.text]
    ELSE IF ~ok(answer.status)
    THEN [aiStatus |-> "error", aiText |-> HttpMessage(answer.status)]
    ELSE [aiStatus |-> "idle",
          aiText |-> IF answer.text = Undefined THEN "" ELSE answer.text]

\* fetch of request k has settled: the rest of fetchAiCommentary runs.
answered(k, answer) ==
    /\ k \in 1..Len(requests)
    /\ Event("answered", [kind |-> answer.kind, status |-> answer.status,
                          text |-> answer.text, click |-> requests[k].click])
    /\ aiStatus' = settleCommentary(answer).aiStatus
    /\ aiText' = settleCommentary(answer).aiText
    /\ requests' = Without(requests, k)
    /\ UNCHANGED <<assets, weights, seed, uploadedNames, seriesByAsset, frontierGenerated,
                   uploads, pending, callVars>>

Next ==
    \/ FlushEffects
    \/ addInstrument
    \/ \E id \in 1..(MaxClicks + 1) : removeInstrument(id)
    \/ \E id \in 1..(MaxClicks + 1), name \in RenameValues : renameInstrument(id, name)
    \/ \E i \in 1..MaxAssets, pct \in SliderValues : setWeight(i, pct)
    \/ resetWeights
    \/ randomizeWeights
    \/ bumpSeed
    \/ generateFrontier
    \/ \E i \in 1..MaxAssets, file \in Files : startUpload(i, file)
    \/ \E k \in 1..MaxUploads : fileRead(k)
    \/ \E button \in {"header", "panel"} : fetchAiCommentary(button)
    \/ \E k \in 1..MaxRequests, answer \in Answers : answered(k, answer)

Spec == Init /\ [][Next]_vars

\* C2 as stated: once settled, the weight vector holds one non-negative entry per asset
\* and sums to 1 within 1e-6, whatever the number of assets.
C2_AsStated ==
    Settled => /\ Len(weights) = Len(assets)
               /\ NonNegative(weights)
               /\ SumsToOne(weights)

\* C2: once every mutation has settled (slider or text edit, reset, randomize, add,
\* remove, in any order), the weight vector holds one non-negative entry per asset,
\* and its sum is within 1e-6 of 1 as long as one asset at least is left; after the
\* removal of the last instrument the vector is empty.
C2_SessionWeights ==
    Settled => /\ Len(weights) = Len(assets)
               /\ NonNegative(weights)
               /\ (Len(assets) >= 1 => SumsToOne(weights))
               /\ (Len(assets) = 0 => weights = <<>>)

\* C2 witness: a removal has settled on two assets of unequal weights.
C2_Witness ==
    /\ Settled
    /\ lastEvent.op = "removeInstrument"
    /\ Len(lastEvent.weights) = 3
    /\ Len(assets) = 2
    /\ weights[1] # weights[2]
    /\ RSum(weights) = One

\* The resize of the last user event has settled.
ResizeSettled(op) == Settled /\ lastEvent.op = op

\* C3 as stated: after a resize the existing indices keep their values, a new index
\* receives the prior deficit (1 minus the sum of the preserved weights), and the
\* vector is renormalized to sum 1.
C3_AsStated ==
    LET before == lastEvent.weights
        n == Len(assets)
        kept == [i \in 1..Max2(0, Len(before) - 1) |-> before[i]]
    IN  /\ ResizeSettled("addInstrument") =>
              weights = normalizeWeightsLongOnly(
                            ResizeWith(before, n, RSub(One, RSum(before))))
        /\ ResizeSettled("removeInstrument") =>
              weights = normalizeWeightsLongOnly(kept)

\* C3: when an instrument is added to n >= 1 assets, the new index is filled with
\* 1 / (n + 1) and the vector is renormalized: every existing weight is multiplied by
\* (n + 1) / (n + 2) and the new index holds 1 / (n + 2); added to no asset, the
\* instrument holds 1.  When an instrument is removed, the last index is dropped and
\* the others are divided by their sum (each 1 / (n - 1) when that sum is 0).
C3_ResizeWeights ==
    LET before == lastEvent.weights
        n == Len(before)
        keptSum == RSumTo(before, n - 1)
    IN  /\ (ResizeSettled("addInstrument") /\ n >= 1) =>
              /\ Len(weights) = n + 1
              /\ \A i \in 1..n : weights[i] = RMul(before[i], Rat(n + 1, n + 2))
              /\ weights[n + 1] = Rat(1, n + 2)
        /\ (ResizeSettled("addInstrument") /\ n = 0) => weights = <<One>>
        /\ ResizeSettled("removeInstrument") =>
              /\ Len(weights) = n - 1
              /\ \A i \in 1..(n - 1) :
                    weights[i] = IF RGt(keptSum, Zero) THEN RDiv(before[i], keptSum)
                                 ELSE Rat(1, n - 1)

\* C3 witness: an instrument was added next to two of unequal weights, which kept
\* their ratio and gave up a quarter of the total.
C3_Witness ==
    /\ ResizeSettled("addInstrument")
    /\ Len(lastEvent.weights) = 2
    /\ lastEvent.weights[1] # lastEvent.weights[2]
    /\ lastEvent.weights[2] # Zero
    /\ weights[3] = <<1, 4>>
    /\ RAdd(weights[1], weights[2]) = <<3, 4>>

-----------------------------------------------------------------------------
(* SpecStats: the derivation of lines 522-525 on a set of per-asset series:  *)
(* alignedSeries, then muMonthly and covMonthly, then corr.                  *)

\* How many assets a series set holds at most.
MaxRows == 3

Ints(s) == ArrayOf([k \in 1..Len(s) |-> Int2Rat(s[k])])

\* Per-asset series: none, one point, two points, constant, rising, falling, longer.
RowPool ==
    { <<>>,
      <<Int2Rat(5)>>,
      <<<<1, 2>>, <<-1, 2>>>>,
      Ints(<<1, 1, 1, 1>>),
      Ints(<<1, 2, 3>>),
      Ints(<<3, 2, 1>>),
      Ints(<<3, -3, 0, 0>>),
      Ints(<<4, -3, 3, 0, 0>>) }

RawSeriesSets == UNION {[1..n -> RowPool] : n \in 0..MaxRows}

InitStats ==
    /\ SessionIdle /\ RenormIdle /\ SamplerIdle /\ CsvIdle /\ EndpointIdle
    /\ \E series \in RawSeriesSets :
          aligned = [phase |-> "raw", input |-> series, output |-> <<>>]
    /\ StatsIdle

\* alignedSeries, line 522
Align ==
    /\ aligned.phase = "raw"
    /\ aligned' = [aligned EXCEPT !.phase = "aligned",
                                  !.output = alignSeriesToCommonLength(aligned.input)]
    /\ UNCHANGED <<sessionVars, renorm, stats, sampler, csv, endpoint>>

\* muMonthly and covMonthly, lines 523-524
Covariance ==
    /\ aligned.phase = "aligned"
    /\ stats.phase = "idle"
    /\ stats' = [stats EXCEPT !.phase = "cov",
                              !.mu = [i \in 1..Len(aligned.output) |-> mean(aligned.output[i])],
                              !.cov = covarianceMatrix(aligned.output)]
    /\ UNCHANGED <<sessionVars, renorm, aligned, sampler, csv, endpoint>>

\* corr, line 525
Correlation ==
    /\ stats.phase = "cov"
    /\ stats' = [stats EXCEPT !.phase = "corr", !.corr = correlationFromCov(stats.cov)]
    /\ UNCHANGED <<sessionVars, renorm, aligned, sampler, csv, endpoint>>

NextStats == Align \/ Covariance \/ Correlation

SpecStats == InitStats /\ [][NextStats]_vars

\* The lengths of the non-empty rows.
NonZeroLengths(series) ==
    {Len(series[i]) : i \in 1..Len(series)} \ {0}

\* C6 as stated: alignSeriesToCommonLength returns its input unchanged when no series is
\* non-empty or the minimum non-zero length N is below 2; otherwise every row of the
\* result has length N >= 2 and is the last N entries of its original series.
C6_AsStated ==
    aligned.phase = "aligned" =>
        LET in == aligned.input
            out == aligned.output
            lens == NonZeroLengths(in)
        IN  IF lens = {} \/ MinOf(lens) < 2
            THEN out = in
            ELSE /\ Len(out) = Len(in)
                 /\ \A i \in 1..Len(in) :
                       /\ Len(out[i]) = MinOf(lens)
                       /\ \A k \in 1..MinOf(lens) :
                             out[i][k] = Elem(in[i], Len(in[i]) - MinOf(lens) + k)

\* The case of C6 that fails: an empty series next to series of two points or more.
C6_EmptyRowKept ==
    /\ aligned.phase = "aligned"
    /\ aligned.input = <<<<>>, Ints(<<1, 2, 3>>), <<<<1, 2>>, <<-1, 2>>>>>>
    /\ aligned.output = <<<<>>, Ints(<<2, 3>>), <<<<1, 2>>, <<-1, 2>>>>>>

\* a == b of two numbers: false when either is NaN.
JsEq(a, b) == ~IsNaN(a) /\ ~IsNaN(b) /\ a = b

\* covMonthly is an n x n matrix, symmetric, with a diagonal >= 0.
SymmetricNonNegDiag(cov, n) ==
    /\ Len(cov) = n
    /\ \A i \in 1..n : Len(cov[i]) = n
    /\ \A i \in 1..n : \A j \in 1..n : JsEq(cov[i][j], cov[j][i])
    /\ \A i \in 1..n : RGe(cov[i][i], Zero)

\* C7 as stated: for every aligned series set (every result of
\* alignSeriesToCommonLength), covarianceMatrix returns an n x n matrix with
\* cov[i][j] == cov[j][i] for all i, j and cov[i][i] >= 0 for all i.
C7_AsStated ==
    stats.phase \in {"cov", "corr"} => SymmetricNonNegDiag(stats.cov, Len(aligned.output))

\* All rows have one length.
Rectangular(series) ==
    \A i \in 1..Len(series) : Len(series[i]) = Len(series[1])

\* The part of C7 that holds: on a set whose rows have one length the matrix is n x n,
\* symmetric, with a diagonal >= 0.
C7_Rectangular ==
    (stats.phase \in {"cov", "corr"} /\ Rectangular(aligned.output))
        => SymmetricNonNegDiag(stats.cov, Len(aligned.output))

\* The case of C7 that fails: the set comes back unmodified (a series of one point) and
\* the covariance reads the missing second and third element of that series.
C7_MissingElementRead ==
    /\ stats.phase = "cov"
    /\ aligned.output = <<Ints(<<1, 2, 3>>), <<Int2Rat(5)>>>>
    /\ stats.cov[1][1] = One
    /\ IsNaN(stats.cov[1][2]) /\ IsNaN(stats.cov[2][1]) /\ IsNaN(stats.cov[2][2])

\* The n x n matrix of zeros.
ZeroMatrix(n) == [i \in 1..n |-> [j \in 1..n |-> Zero]]

\* alignSeriesToCommonLength gave the set back as it was, its shortest non-empty row
\* being of one point.
ReturnedUnmodified ==
    /\ NonZeroLengths(aligned.input) # {}
    /\ MinOf(NonZeroLengths(aligned.input)) < 2
    /\ aligned.output = aligned.input

\* C19 as stated: whenever alignSeriesToCommonLength returns the series unmodified
\* because the minimum non-zero length is below 2, covarianceMatrix on that result is
\* the n x n matrix of zeros, whatever the lengths and the order of the series.
C19_AsStated ==
    (stats.phase \in {"cov", "corr"} /\ ReturnedUnmodified)
        => stats.cov = ZeroMatrix(Len(aligned.output))

\* The case of C19 that fails: the series of one point is not the first, so that T is
\* the length 3 of the first and the entries of the second are computed from elements
\* it does not have.
C19_ShortRowNotFirst ==
    /\ stats.phase = "cov"
    /\ ReturnedUnmodified
    /\ aligned.output = <<Ints(<<3, 2, 1>>), <<Int2Rat(5)>>>>
    /\ stats.cov[1][1] = One
    /\ IsNaN(stats.cov[1][2]) /\ IsNaN(stats.cov[2][1]) /\ IsNaN(stats.cov[2][2])

\* lo <= x <= hi; false for NaN.
Within(x, lo, hi) == RGe(x, lo) /\ RLe(x, hi)

\* Every entry whose row or column has variance 0 is exactly 0.
ZeroVarianceGivesZero(cov, corr) ==
    \A i \in 1..Len(cov) : \A j \in 1..Len(cov) :
        (cov[i][i] = Zero \/ cov[j][j] = Zero) => corr[i][j] = Zero

\* C8 as stated: every entry of the matrix returned by correlationFromCov lies in
\* [-1, 1], and is exactly 0 whenever the variance cov[i][i] or cov[j][j] is 0.
C8_AsStated ==
    stats.phase = "corr" =>
        /\ \A i \in 1..Len(stats.corr) : \A j \in 1..Len(stats.corr) :
              Within(stats.corr[i][j], RNeg(One), One)
        /\ ZeroVarianceGivesZero(stats.cov, stats.corr)

\* The rounding of the two square roots of a denominator: each is off by at most one
\* part in 2^SqrtBits, the quotient by less than four.
SqrtTolerance == Rat(4, Pow2(SqrtBits))

\* C8: every entry of the matrix returned by correlationFromCov lies in [-1, 1] up to
\* the rounding of the square roots in its denominator (an entry of magnitude 1 may
\* come out just above 1), and is exactly 0 whenever the variance cov[i][i] or
\* cov[j][j] is 0.
C8_CorrelationRange ==
    stats.phase = "corr" =>
        /\ Len(stats.corr) = Len(stats.cov)
        /\ \A i \in 1..Len(stats.corr) : \A j \in 1..Len(stats.corr) :
              Within(stats.corr[i][j],
                     RNeg(RAdd(One, SqrtTolerance)), RAdd(One, SqrtTolerance))
        /\ ZeroVarianceGivesZero(stats.cov, stats.corr)

\* C8 witness: three assets, one of variance 0 whose entries are 0, two that move
\* against each other, and a diagonal entry above 1.
C8_Witness ==
    /\ stats.phase = "corr"
    /\ Len(stats.corr) = 3
    /\ \E i \in 1..3 : stats.cov[i][i] = Zero /\ stats.corr[i][i] = Zero
    /\ \E i, j \in 1..3 : RLt(stats.corr[i][j], Zero)
    /\ \E i \in 1..3 : RGt(stats.corr[i][i], One)

-----------------------------------------------------------------------------
(* SpecSampler: runs of generateMockSeries and generateEfficientFrontier, one *)
(* after the other.  sampler.rngState is the state of the generator closure   *)
(* that the last run left behind; sampler.runs is the record of the runs.     *)

\* How many runs a behaviour makes.
MaxRuns == 3

\* `months` of the mock runs.
MaxMonths == 2

\* `points` of the frontier runs.
MaxPoints == 5

Percent(s) == ArrayOf([k \in 1..Len(s) |-> Rat(s[k], 100)])

\* Monthly returns of two and of three assets, in percent.
Returns2 == <<Percent(<<1, -2, 3, 2>>), Percent(<<4, 0, -5, 9>>)>>
Returns3 == <<Percent(<<1, -2, 3>>), Percent(<<4, 0, -4>>), Percent(<<-1, 6, 1>>)>>

\* A set that alignSeriesToCommonLength returns as it is: its covariances are NaN but one.
Ragged2 == <<Percent(<<1, -2, 3>>), Percent(<<5>>)>>

muOf(series) == ArrayOf([i \in 1..Len(series) |-> mean(series[i])])

\* The arguments of the runs: (assets, months, seed) and
\* (nAssets, muMonthly, covMonthly, points, seed).
MockInputs ==
    { <<<<"inst_1">>, MaxMonths, 1337>>,
      <<<<"aapl", "inst_1">>, MaxMonths, 1337>>,
      <<<<"aapl", "inst_1">>, MaxMonths, 1338>> }

FrontierInputs ==
    { <<2, muOf(Returns2), covarianceMatrix(Returns2), MaxPoints, 2026>>,
      <<2, muOf(Returns2), covarianceMatrix(Returns2), MaxPoints, 2027>>,
      <<3, muOf(Returns3), covarianceMatrix(Returns3), MaxPoints, 2026>>,
      <<2, muOf(Ragged2), covarianceMatrix(Ragged2), MaxPoints, 2026>> }

InitSampler ==
    /\ SessionIdle /\ RenormIdle /\ AlignedIdle /\ StatsIdle /\ CsvIdle /\ EndpointIdle
    /\ sampler = [rngState |-> <<0, 0>>, runs |-> <<>>]

\* generateMockSeries(assets, months, seed), as lines 464 and 480 call it
RunMock(in) ==
    /\ Len(sampler.runs) < MaxRuns
    /\ \E r \in {generateMockSeries(in[1], in[2], in[3])} :
           sampler' = [rngState |-> r.st,
                       runs |-> Append(sampler.runs,
                                       [fn |-> "generateMockSeries", in |-> in,
                                        out |-> [months |-> r.months,
                                                 seriesByAsset |-> r.seriesByAsset]])]
    /\ UNCHANGED <<sessionVars, renorm, aligned, stats, csv, endpoint>>

\* generateEfficientFrontier(nAssets, muMonthly, covMonthly, points, seed), as line 540
\* calls it
RunFrontier(in) ==
    /\ Len(sampler.runs) < MaxRuns
    /\ \E r \in {generateEfficientFrontier(in[1], in[2], in[3], in[4], in[5])} :
           sampler' = [rngState |-> r.st,
                       runs |-> Append(sampler.runs,
                                       [fn |-> "generateEfficientFrontier", in |-> in,
                                        out |-> [cloud |-> r.cloud,
                                                 frontier |-> r.frontier,
                                                 bestSharpe |-> r.bestSharpe]])]
    /\ UNCHANGED <<sessionVars, renorm, aligned, stats, csv, endpoint>>

NextSampler ==
    \/ \E in \in MockInputs : RunMock(in)
    \/ \E in \in FrontierInputs : RunFrontier(in)

SpecSampler == InitSampler /\ [][NextSampler]_vars

RiskNonDecreasing(frontier) ==
    \A k \in 1..(Len(frontier) - 1) : RLe(frontier[k].risk, frontier[k + 1].risk)

\* C10: in every frontier returned by generateEfficientFrontier the risk values of
\* consecutive entries are non-decreasing.
C10_FrontierRiskSorted ==
    \A a \in 1..Len(sampler.runs) :
        sampler.runs[a].fn = "generateEfficientFrontier"
            => RiskNonDecreasing(sampler.runs[a].out.frontier)

\* C10 witness: a frontier of three entries or more, of rising risk, from a cloud that
\* was not sampled in order of risk.
C10_Witness ==
    \E a \in 1..Len(sampler.runs) :
        /\ sampler.runs[a].fn = "generateEfficientFrontier"
        /\ Len(sampler.runs[a].out.frontier) >= 3
        /\ RLt(sampler.runs[a].out.frontier[1].risk, sampler.runs[a].out.frontier[2].risk)
        /\ ~RiskNonDecreasing(sampler.runs[a].out.cloud)

\* The risks of a cloud.
RisksOf(cloud) == {cloud[k].risk : k \in 1..Len(cloud)}

\* The least and the greatest of a non-empty set of risks.
LeastRisk(risks) == CHOOSE r \in risks : \A q \in risks : RLe(r, q)
GreatestRisk(risks) == CHOOSE r \in risks : \A q \in risks : RLe(q, r)

\* The buckets of lines 299-302 that hold the risk: lo <= risk < hi with
\* lo = minR + b * step and hi = lo + step, step the 40th of the range (1 when that is 0).
BucketsOfRisk(risk, minR, maxR) ==
    LET among(step) ==
            {b \in 0..(bucketCount - 1) :
                /\ RGe(risk, RAdd(minR, RMul(Int2Rat(b), step)))
                /\ RLt(risk, RAdd(RAdd(minR, RMul(Int2Rat(b), step)), step))}
        width(w) == IF w = Zero \/ IsNaN(w) THEN among(One) ELSE among(w)
    IN  width(RDiv(RSub(maxR, minR), Int2Rat(bucketCount)))

\* Every point of the cloud is in one bucket and only one, and the frontier has an
\* entry of that bucket whose return is not below the point's.
BucketsCover(cloud, frontier) ==
    \A k \in 1..Len(cloud) :
        \E b \in 0..(bucketCount - 1) :
            /\ BucketsOfRisk(cloud[k].risk, LeastRisk(RisksOf(cloud)),
                             GreatestRisk(RisksOf(cloud))) = {b}
            /\ \E f \in 1..Len(frontier) :
                  /\ b \in BucketsOfRisk(frontier[f].risk, LeastRisk(RisksOf(cloud)),
                                         GreatestRisk(RisksOf(cloud)))
                  /\ RGe(frontier[f].ret, cloud[k].ret)

\* The statistics of the run hold no NaN.
FiniteStats(in) ==
    /\ \A i \in 1..Len(in[2]) : ~IsNaN(in[2][i])
    /\ \A i \in 1..Len(in[3]) : \A j \in 1..Len(in[3][i]) : ~IsNaN(in[3][i][j])

\* C18 as stated: the 40 buckets of generateEfficientFrontier cover the whole range
\* [min risk, max risk]: every point of the cloud, the one of the greatest risk
\* included, is in exactly one bucket, and the frontier holds an entry of the same
\* bucket whose return is at least the point's.
C18_AsStated ==
    \A a \in 1..Len(sampler.runs) :
        (sampler.runs[a].fn = "generateEfficientFrontier" /\ FiniteStats(sampler.runs[a].in))
            => BucketsCover(sampler.runs[a].out.cloud, sampler.runs[a].out.frontier)

\* C18, what the code does: on finite statistics with risks that differ, the point of
\* the greatest risk is in no bucket (the last bucket ends where that risk begins), no
\* entry of the frontier has that risk, and every other point is in exactly one bucket.
C18_MaxRiskDropped ==
    \E a \in 1..Len(sampler.runs) :
        /\ sampler.runs[a].fn = "generateEfficientFrontier"
        /\ FiniteStats(sampler.runs[a].in)
        /\ \E cloud \in {sampler.runs[a].out.cloud} :
           \E minR \in {LeastRisk(RisksOf(cloud))} :
           \E maxR \in {GreatestRisk(RisksOf(cloud))} :
              /\ RLt(minR, maxR)
              /\ BucketsOfRisk(maxR, minR, maxR) = {}
              /\ \A f \in 1..Len(sampler.runs[a].out.frontier) :
                    sampler.runs[a].out.frontier[f].risk # maxR
              /\ \A k \in 1..Len(cloud) :
                    cloud[k].risk # maxR =>
                        Cardinality(BucketsOfRisk(cloud[k].risk, minR, maxR)) = 1

-----------------------------------------------------------------------------
(* The CSV parser on bounded texts *)

\* Lines of the texts of any shape, and data lines of the texts under a good header.
MaxLines == 3
MaxDataLines == 4

CsvHeaders ==
    { <<"Date", "Open", "Close">>,
      <<" date", "CLOSE ">>,
      <<"Date", "Open", "High", "Low", "Volume">>,
      <<"Open", "Close">> }

\* Data lines date,x,x: the close is x under either good header.
CsvRows ==
    { <<"2024-01", "100", "100">>,
      <<"2024-02", "110", "110">>,
      <<"2024-03", " 121", " 121">>,
      <<"2024-02", "0", "0">>,
      <<"2024-03", "", "">>,
      <<"", "100", "100">>,
      <<"2024-04", "-50", "-50">>,
      <<"2024-01", "abc", "abc">>,
      <<"2024-04">>,
      <<" ">> }

LongRows == CsvRows \ {<<"2024-01", "abc", "abc">>, <<"2024-04">>, <<" ">>}

\* The texts: any MaxLines lines, and up to MaxDataLines plain data lines under a good header.
Extends(text, line) ==
    IF Len(text) < MaxLines THEN TRUE
    ELSE /\ Len(text) < 1 + MaxDataLines
         /\ text[1] \in {<<"Date", "Open", "Close">>, <<" date", "CLOSE ">>}
         /\ \A k \in 2..Len(text) : text[k] \in LongRows
         /\ line \in LongRows

InitCsv ==
    /\ SessionIdle /\ RenormIdle /\ AlignedIdle /\ StatsIdle /\ SamplerIdle /\ EndpointIdle
    /\ CsvIdle

\* The file the user picks, one more line of it
WriteLine(line) ==
    /\ csv.phase = "idle"
    /\ Extends(csv.text, line)
    /\ csv' = [csv EXCEPT !.text = Append(csv.text, line)]
    /\ UNCHANGED <<sessionVars, renorm, aligned, stats, sampler, endpoint>>

\* parseCsvOhlcvCloseReturns(text), as line 505 calls it on the text of the file
ParseCsv ==
    /\ csv.phase = "idle"
    /\ csv' = [csv EXCEPT !.phase = "done", !.result = parseCsvOhlcvCloseReturns(csv.text)]
    /\ UNCHANGED <<sessionVars, renorm, aligned, stats, sampler, endpoint>>

NextCsv ==
    \/ \E line \in CsvHeaders \cup CsvRows : WriteLine(line)
    \/ ParseCsv

SpecCsv == InitCsv /\ [][NextCsv]_vars

\* What a reader of the file sees: the non-blank lines, the column names of the first.
FileLines == nonBlankLines(csv.text)
ColumnNames == {ToLowerCase(Trim(FileLines[1][k])) : k \in 1..Len(FileLines[1])}
HasColumns == "date" \in ColumnNames /\ "close" \in ColumnNames
ColumnOf(name) ==
    CHOOSE k \in 1..Len(FileLines[1]) :
        /\ ToLowerCase(Trim(FileLines[1][k])) = name
        /\ \A j \in 1..(k - 1) : ToLowerCase(Trim(FileLines[1][j])) # name
CellOf(line, name) ==
    IF ColumnOf(name) \in 1..Len(line) THEN Trim(line[ColumnOf(name)]) ELSE Undefined

\* The data lines with a non-empty date whose close converts to a finite number.
ValidLines ==
    {k \in 2..Len(FileLines) :
        /\ CellOf(FileLines[k], "date") \notin {"", Undefined}
        /\ ~IsNaN(ToNumber(CellOf(FileLines[k], "close")))}

\* C11 as the spec states it: every text whose header row lacks a date or a close
\* column fails with the column-missing error, whatever the number of data rows.
C11_AsStated ==
    (csv.phase = "done" /\ FileLines # <<>> /\ ~HasColumns)
        => (~csv.result.ok /\ csv.result.error = ColumnsMissing)

\* C11, amended: a text of fewer than 3 non-blank lines fails with the too-short error
\* whatever its header; a text of at least 3 non-blank lines fails with the
\* column-missing error exactly when its first non-blank line lacks a `date` or a
\* `close` column (cells trimmed, case-insensitive).
C11_ColumnsMissing ==
    csv.phase = "done" =>
        /\ Len(FileLines) < 3 => (~csv.result.ok /\ csv.result.error = TooShort)
        /\ Len(FileLines) >= 3 =>
               ((~csv.result.ok /\ csv.result.error = ColumnsMissing) <=> ~HasColumns)

C11_Witness ==
    /\ csv.phase = "done"
    /\ Len(FileLines) >= 3
    /\ FileLines[1] = <<"Date", "Open", "High", "Low", "Volume">>
    /\ csv.result.error = ColumnsMissing

\* C12 as the spec states it: every text with a valid header and fewer than 2 valid
\* data rows fails with the too-few-records error, a file with exactly 1 valid data
\* row included.
C12_AsStated ==
    (csv.phase = "done" /\ FileLines # <<>> /\ HasColumns /\ Cardinality(ValidLines) < 2)
        => (~csv.result.ok /\ csv.result.error = TooFewRecords)

\* C12, amended: a text of at least 3 non-blank lines with a valid header and fewer
\* than 2 data lines that have a non-empty date and a close converting to a finite
\* number fails with the too-few-records error.
C12_TooFewRecords ==
    (csv.phase = "done" /\ Len(FileLines) >= 3 /\ HasColumns /\ Cardinality(ValidLines) < 2)
        => (~csv.result.ok /\ csv.result.error = TooFewRecords)

C12_Witness ==
    /\ csv.phase = "done"
    /\ Len(FileLines) >= 3
    /\ HasColumns
    /\ Cardinality(ValidLines) = 1
    /\ csv.result.error = TooFewRecords

\* The rows the spec reads from the file: non-empty date, a close column that holds a
\* finite number (an empty close column holds none), in file order.
RECURSIVE StatedRowsFrom(_)
StatedRowsFrom(k) ==
    IF k > Len(FileLines) THEN <<>>
    ELSE IF k \in ValidLines /\ CellOf(FileLines[k], "close") # ""
    THEN <<[date |-> CellOf(FileLines[k], "date"),
            close |-> ToNumber(CellOf(FileLines[k], "close"))]>> \o StatedRowsFrom(k + 1)
    ELSE StatedRowsFrom(k + 1)

\* C20: for every accepted CSV the returned sequence is close[t]/close[t-1] - 1 over the
\* consecutive pairs of the valid rows sorted by date, without the pairs whose
\* close[t-1] <= 0; a row with an empty date or a close column holding no finite
\* number (an empty one included) contributes to no return.
C20_AsStated ==
    (csv.phase = "done" /\ csv.result.ok)
        => csv.result.rets = retsTo(sortByDate(StatedRowsFrom(2)), Len(StatedRowsFrom(2)))

\* An accepted file in which a line with an empty close column was read as close 0.
C20_EmptyCloseKept ==
    /\ csv.phase = "done"
    /\ csv.result.ok
    /\ \E k \in ValidLines : CellOf(FileLines[k], "close") = ""
    /\ \E i \in 1..Len(csv.result.rets) : csv.result.rets[i] = Int2Rat(-1)


-----------------------------------------------------------------------------
(* The session: uploads, the frontier flag, the commentary                  *)

\* The session state an upload can touch is as the last event found it.
SeriesAndNamesKept ==
    /\ seriesByAsset = lastEvent.series
    /\ uploadedNames = lastEvent.names
    /\ weights = lastEvent.weights
    /\ frontierGenerated = lastEvent.flag
    /\ Len(assets) = lastEvent.n
    /\ pending = {}

\* C13: an upload that is rejected (the parser threw, or it gave fewer than 12
\* returns) mutates no session state: neither the pick of the file nor the rejection
\* changes the series of any asset, the uploaded file names, the weights or the
\* frontier flag, and no effect is left to run.
C13_RejectedUpload ==
    lastEvent.op \in {"startUpload", "uploadRejected"} => SeriesAndNamesKept

\* C13 witness: a file of 4 closes was rejected on the asset that holds the returns of
\* an earlier file, which are still there under the name of that file.
C13_Witness ==
    /\ lastEvent.op = "uploadRejected"
    /\ lastEvent.detail = TooFewPoints
    /\ uploadedNames = <<"good.csv">>
    /\ seriesByAsset[1].source = "CSV"
    /\ seriesByAsset[1].file = "good.csv"

\* The last event changed the series the statistics are computed from.
StatsChanged == seriesByAsset # lastEvent.series

WeightOps == {"setWeight", "resetWeights", "randomizeWeights"}

\* C15: a weight change with the asset set fixed (slider or text edit, reset,
\* randomize) leaves the frontier flag, the statistics and so the exposed frontier as
\* they were, and leaves no effect to run: only the weights change.
C15_WeightChange ==
    lastEvent.op \in WeightOps =>
        /\ frontierGenerated = lastEvent.flag
        /\ Len(assets) = lastEvent.n
        /\ seriesByAsset = lastEvent.series
        /\ uploadedNames = lastEvent.names
        /\ pending = {}
        /\ exposedFrontier(frontierGenerated, Len(assets), seriesByAsset)
               = exposedFrontier(lastEvent.flag, lastEvent.n, lastEvent.series)

\* C15 witness: a slider moved the weights of two assets under a generated frontier,
\* which is still exposed.
C15_Witness ==
    /\ lastEvent.op = "setWeight"
    /\ lastEvent.flag
    /\ Len(assets) = 2
    /\ weights # lastEvent.weights
    /\ exposedFrontier(frontierGenerated, Len(assets), seriesByAsset).cloud = "generated"

\* The request failed: fetch rejected, or the status of the response is not 2xx.
Failed(answer) == answer.kind = "rejection" \/ answer.status < 200 \/ answer.status > 299

\* C17: when a commentary request fails (non-2xx status, among them the 500 of a
\* missing credential, or a network failure) the session is in error status and shows
\* the raw message (HTTP <status>, or the message of the failure), and the failure
\* sends no request; when it succeeds the session is in idle status and shows the
\* text returned (nothing when there is none).
C17_CommentaryOutcome ==
    lastEvent.op = "answered" =>
        /\ Len(requests) = Len(lastEvent.requests) - 1
        /\ Failed(lastEvent.detail) =>
              /\ aiStatus = "error"
              /\ aiText = IF lastEvent.detail.kind = "rejection" THEN "Failed to fetch"
                          ELSE "HTTP 500"
        /\ ~Failed(lastEvent.detail) =>
              /\ aiStatus = "idle"
              /\ aiText = IF lastEvent.detail.text = Undefined THEN ""
                          ELSE lastEvent.detail.text

\* C17 witness: the only request in flight was answered with status 500.
C17_Witness ==
    /\ lastEvent.op = "answered"
    /\ lastEvent.detail.kind = "response"
    /\ lastEvent.detail.status = 500
    /\ aiStatus = "error"
    /\ aiText = "HTTP 500"
    /\ requests = <<>>


-----------------------------------------------------------------------------
(* SpecEndpoint: the commentary endpoint, as the serverless handler of       *)
(* api/ai-commentary.ts (lines 7-46) and as the Express server of server.mjs. *)
(* A deployment serves requests one after the other; the call of the model   *)
(* is awaited, and what it gives is an input.                                *)

\* How many requests a deployment is sent.
MaxServed == 3

Methods == {"GET", "POST", "PUT"}

\* The body of a request: JSON text or not.
Bodies == {"json", "malformed"}

\* What the awaited call of the model gives: an output with a text, an output without
\* any choice (server.mjs reads choices[0].message), or a rejection.
ModelOutcomes ==
    {[ok |-> TRUE, text |-> "komentarz"],
     [ok |-> TRUE, text |-> ""],
     [ok |-> TRUE, text |-> "<no choices>"],
     [ok |-> FALSE, text |-> "429 rate limit"],
     [ok |-> FALSE, text |-> "401 no api key"]}

\* res.status(status).json({ [field]: value })
JsonResponse(status, field, value) ==
    [status |-> status, json |-> TRUE, field |-> field, value |-> value]

\* The page Express sends by itself: no route for the method (404), or express.json()
\* could not parse the body (400).
ExpressPage(status) == [status |-> status, json |-> FALSE, field |-> "", value |-> ""]

\* The handler is about to await the model.
Awaiting == [status |-> 0, json |-> FALSE, field |-> "await", value |-> ""]

\* handler up to the await, without the check of the method.
handler_anyMethod(method, apiKey) ==
    IF ~apiKey THEN JsonResponse(500, "error", "Missing OPENAI_API_KEY")
    ELSE Awaiting

\* handler(req, res) up to the await, api/ai-commentary.ts lines 7-24
handler(method, apiKey) ==
    IF method # "POST" THEN JsonResponse(405, "error", "Method not allowed")
    ELSE IF ~apiKey THEN JsonResponse(500, "error", "Missing OPENAI_API_KEY")
    ELSE Awaiting

\* handler after the await, lines 42-45: response.output_text is a string
handlerSettled(outcome) ==
    IF outcome.ok
    THEN JsonResponse(200, "text", IF outcome.text = "<no choices>" THEN "" ELSE outcome.text)
    ELSE JsonResponse(500, "error", outcome.text)

\* server.mjs up to the await: express.json() of line 5, then the route of line 10,
\* which is registered for POST only and does not look at the credential.
commentaryRoute(method, body) ==
    IF method # "POST" THEN ExpressPage(404)
    ELSE IF body = "malformed" THEN ExpressPage(400)
    ELSE Awaiting

\* server.mjs after the await, lines 36-38: choices[0] of no choice is undefined, and
\* reading its message throws into the catch.
commentaryRouteSettled(outcome) ==
    IF outcome.ok /\ outcome.text # "<no choices>" THEN JsonResponse(200, "text", outcome.text)
    ELSE IF outcome.ok
    THEN JsonResponse(500, "error", "Cannot read properties of undefined (reading 'message')")
    ELSE JsonResponse(500, "error", outcome.text)

InitEndpoint ==
    /\ SessionIdle /\ RenormIdle /\ AlignedIdle /\ StatsIdle /\ SamplerIdle /\ CsvIdle
    /\ EndpointIdle

\* The endpoint is deployed, with the credential in its environment or not.  Line 7 of
\* server.mjs builds the client when the module loads: what new OpenAI does with no
\* key is the library's to decide, it throws (the process ends before app.listen) or
\* it builds a client whose calls are rejected.
Deploy(impl, apiKey, throwsWithoutKey) ==
    /\ endpoint.phase = "idle"
    /\ endpoint' = [phase |-> IF impl = "server.mjs" /\ ~apiKey /\ throwsWithoutKey
                              THEN "down" ELSE "listening",
                    impl |-> impl, apiKey |-> apiKey, served |-> 0,
                    method |-> "", body |-> "", calls |-> 0, settled |-> "none",
                    responses |-> <<>>]
    /\ UNCHANGED <<sessionVars, renorm, aligned, stats, sampler, csv>>

\* What a request is answered with before anything is awaited.
entered(impl, method, body, apiKey) ==
    IF impl = "handler" THEN handler(method, apiKey) ELSE commentaryRoute(method, body)

\* A request arrives and is served up to its response or to the await of the model.
Receive(method, body) ==
    /\ endpoint.phase \in {"listening", "down", "done"}
    /\ endpoint.served < MaxServed
    /\ \E r \in {entered(endpoint.impl, method, body, endpoint.apiKey)} :
          endpoint' =
              [endpoint EXCEPT
                  !.served = @ + 1, !.method = method, !.body = body, !.settled = "none",
                  !.calls = IF endpoint.phase # "down" /\ r = Awaiting THEN 1 ELSE 0,
                  !.responses = IF endpoint.phase = "down" \/ r = Awaiting THEN <<>>
                                ELSE <<r>>,
                  !.phase = IF endpoint.phase = "down" THEN "down"
                            ELSE IF r = Awaiting THEN "calling" ELSE "done"]
    /\ UNCHANGED <<sessionVars, renorm, aligned, stats, sampler, csv>>

\* The call of the model settles; without the credential it can only be rejected.
ModelSettles(outcome) ==
    /\ endpoint.phase = "calling"
    /\ ~endpoint.apiKey => ~outcome.ok
    /\ endpoint' =
          [endpoint EXCEPT
              !.phase = "done",
              !.settled = IF outcome.ok /\ (endpoint.impl = "handler" \/ outcome.text # "<no choices>")
                          THEN "succeeded" ELSE "failed",
              !.responses = <<IF endpoint.impl = "handler" THEN handlerSettled(outcome)
                              ELSE commentaryRouteSettled(outcome)>>]
    /\ UNCHANGED <<sessionVars, renorm, aligned, stats, sampler, csv>>

NextEndpoint ==
    \/ \E impl \in {"handler", "server.mjs"}, apiKey \in BOOLEAN, throwsWithoutKey \in BOOLEAN :
          Deploy(impl, apiKey, throwsWithoutKey)
    \/ \E method \in Methods, body \in Bodies : Receive(method, body)
    \/ \E outcome \in ModelOutcomes : ModelSettles(outcome)

SpecEndpoint == InitEndpoint /\ [][NextEndpoint]_vars

\* The request has been served to its end (or, the process being down, will never be).
Served == endpoint.phase = "done" \/ (endpoint.phase = "down" /\ endpoint.served > 0)

IsSuccess(r) == r.json /\ r.status >= 200 /\ r.status <= 299 /\ r.field = "text"
IsError(r) == r.json /\ (r.status < 200 \/ r.status > 299) /\ r.field = "error"

\* What C16 says of a served request.
OneJsonResponse ==
    /\ Len(endpoint.responses) = 1
    /\ IF endpoint.method = "POST" /\ endpoint.apiKey /\ endpoint.settled = "succeeded"
       THEN IsSuccess(endpoint.responses[1])
       ELSE IsError(endpoint.responses[1])
    /\ (endpoint.method # "POST" \/ ~endpoint.apiKey) => endpoint.calls = 0

-----------------------------------------------------------------------------
(* The session: uploads that end after the asset set changed, the source    *)
(* tags of the payload, the requests in flight, renames                     *)

\* The row of the asset of that id, 0 when the asset is gone.
RowOfAsset(id) ==
    IF \E i \in 1..Len(assets) : assets[i].id = id
    THEN CHOOSE i \in 1..Len(assets) : assets[i].id = id
    ELSE 0

\* C21 as stated: in every settled state the series collection, the weight vector and
\* the list of uploaded file names hold exactly one entry per asset, and an accepted
\* upload has written its returns and its name to the asset it was started for,
\* whatever was added or removed while the file was read.
C21_AsStated ==
    /\ Settled =>
          /\ Len(seriesByAsset) = Len(assets)
          /\ Len(weights) = Len(assets)
          /\ Len(uploadedNames) = Len(assets)
    /\ lastEvent.op = "uploadAccepted" =>
          /\ RowOfAsset(lastEvent.detail.startedFor) # 0
          /\ RowOfAsset(lastEvent.detail.startedFor) <= Len(seriesByAsset)
          /\ seriesByAsset[RowOfAsset(lastEvent.detail.startedFor)].source = "CSV"
          /\ seriesByAsset[RowOfAsset(lastEvent.detail.startedFor)].file
                 = lastEvent.detail.file.name
          /\ uploadedNames[RowOfAsset(lastEvent.detail.startedFor)]
                 = lastEvent.detail.file.name

\* The case of C21 that fails: a file was picked for the second of two assets, the
\* first was removed while the file was read, and the returns went to row 2, where no
\* asset is left; the asset the file was picked for holds the mock series.
C21_StaleIndex ==
    /\ Settled
    /\ lastEvent.op = "uploadAccepted"
    /\ lastEvent.detail.assetIndex = 2
    /\ Len(assets) = 1
    /\ assets[1].id = lastEvent.detail.startedFor
    /\ Len(seriesByAsset) = 2
    /\ seriesByAsset[1].source = "MOCK"
    /\ seriesByAsset[2].source = "CSV"
    /\ uploadedNames = <<"", "good.csv">>
    /\ Len(weights) = 1

\* The last event was a click that sent a request: the request is the last in flight.
RequestSent ==
    /\ lastEvent.op = "fetchAiCommentary"
    /\ Len(requests) = Len(lastEvent.requests) + 1

\* Where the series of row i come from: an uploaded file, or the mock generator.
SourceOfSeries(i) ==
    IF i <= Len(seriesByAsset) /\ seriesByAsset[i].source = "CSV" THEN "CSV" ELSE "MOCK"

\* C22 as stated: the source tag sent for an asset in the commentary payload is "CSV"
\* if and only if the current series of that asset is the one derived from an uploaded
\* CSV, and "MOCK" if and only if it is the synthetic series, after any sequence of
\* uploads, seed refreshes, renames, additions and removals.
C22_AsStated ==
    RequestSent =>
        \A i \in 1..Len(assets) :
            requests[Len(requests)].dataQuality[i].source = SourceOfSeries(i)

\* The case of C22 that fails: the returns of a file were replaced by mock series (a
\* new seed, a rename, an addition or a removal), and the payload still tags the asset
\* "CSV" with the name of the file.
C22_StaleCsvTag ==
    /\ RequestSent
    /\ Len(assets) >= 1
    /\ seriesByAsset[1].source = "MOCK"
    /\ requests[Len(requests)].dataQuality[1].source = "CSV"
    /\ requests[Len(requests)].dataQuality[1].file = "good.csv"

\* The clicks of the requests of a sequence.
ClicksOf(reqs) == {reqs[k].click : k \in 1..Len(reqs)}

\* C23 as stated: at most one commentary request is in flight at any time, the status
\* is 'loading' exactly while a request is outstanding, and the answer that sets the
\* text is the answer to the latest click among the requests that were in flight.
C23_AsStated ==
    /\ Len(requests) <= 1
    /\ aiStatus = "loading" <=> requests # <<>>
    /\ lastEvent.op = "answered" =>
          \A c \in ClicksOf(lastEvent.requests) : c <= lastEvent.detail.click

\* The case of C23 that fails: the button of the header was clicked while a commentary
\* was loading, and two requests are in flight.
C23_TwoInFlight ==
    /\ lastEvent.op = "fetchAiCommentary"
    /\ lastEvent.aiStatus = "loading"
    /\ Len(lastEvent.requests) = 1
    /\ Len(requests) = 2
    /\ aiStatus = "loading"

\* C24 as stated: once a rename has settled, the series of every asset (a series
\* loaded from CSV included), the weight vector and the frontier flag are what the
\* rename found: only the name and the ticker of the asset changed.
C24_AsStated ==
    (Settled /\ lastEvent.op = "renameInstrument") =>
        /\ seriesByAsset = lastEvent.series
        /\ weights = lastEvent.weights
        /\ frontierGenerated = lastEvent.flag
        /\ Len(assets) = lastEvent.n

\* The case of C24 that fails: the asset held the returns of a file under a generated
\* frontier; after the rename it holds the mock series, the frontier is stale, and the
\* name of the file is still listed.
C24_RenameRefreshes ==
    /\ Settled
    /\ lastEvent.op = "renameInstrument"
    /\ lastEvent.flag
    /\ lastEvent.series[1].source = "CSV"
    /\ ~frontierGenerated
    /\ seriesByAsset[1].source = "MOCK"
    /\ uploadedNames = <<"good.csv">>
    /\ weights = lastEvent.weights

====
